---- MODULE Spec2Model ----
(***************************************************************************)
(* Model of the chat-ttt MCP server: the tic-tac-toe agent (agent.py), the *)
(* tool layer (mcp_tools.py) and the JSON-RPC gateway (server_http.py).    *)
(*                                                                         *)
(* Python lists are 0-indexed and TLA+ sequences 1-indexed: the cell with  *)
(* Python index i is board[i + 1]; loop indices keep their Python values.  *)
(***************************************************************************)
EXTENDS Integers, Sequences, FiniteSets, TLC

VARIABLES
    pc,           \* position of the caller: "ready" | "done" | "play" | "over"
                  \* | "serving" | "tools" | "called"
    board,        \* the board passed to the agent
    player,       \* the player passed to the agent (in a game: the mover)
    op,           \* the agent method that was called last
    args,         \* the remaining arguments of that call
    result,       \* the integer the call returned
    winner_found, \* what _check_winner returned
    engines,      \* in a game: the marks that are played by best_move
    sessions,     \* MCPHTTPHandler.sessions: session id -> session record
    issued,       \* the values uuid.uuid4() has returned, in order
    request,      \* the HTTP request handled last
    written,      \* the responses written to the connection for it, in order
    tool_call,    \* the name and arguments execute_tool was called with last
    tool_result,  \* the CallToolResult it returned
    handler_pc,   \* position of _handle_mcp_request on the server's thread
    thread,       \* position of the worker thread it starts (run_async)
    computed,     \* what the method handler has computed on that thread
    generator,    \* position of the async generator call_mcp_tool_stream
    events,       \* the events it has yielded, in order
    executed,     \* how often it has called execute_tool
    active_connections, \* ConnectionManager.active_connections
    dead,         \* the connections whose send_text raises
    attempted     \* the connections broadcast called send_text on, in order

agent_vars == <<pc, board, player, op, args, result, winner_found, engines>>
http_vars == <<sessions, issued, request, written>>
tool_vars == <<tool_call, tool_result>>
thread_vars == <<handler_pc, thread, computed>>
stream_vars == <<generator, events, executed>>
ws_vars == <<active_connections, dead, attempted>>
fastapi_vars == <<stream_vars, ws_vars>>
vars == <<agent_vars, http_vars, tool_vars, thread_vars, fastapi_vars>>

----------------------------------------------------------------------------
(* Values *)

None == "None"
X == "X"
O == "O"
Marks == {X, O}
Cells == {X, O, None}

\* The number of cells of a board (range(9), positions 1..9).
BoardSize == 9

EmptyBoard == [j \in 1..BoardSize |-> None]
TieBoard == <<X, O, X, O, X, O, O, X, O>>

\* float('-inf') and float('inf'): scores are in -1..1, so any number below
\* -1 resp. above 1 compares as the infinities do.
NegInf == -2
PosInf == 2

\* The return value that stands for "no move" / "invalid move".
NoMove == -1

\* An IndexError raised by a list access beyond the end of a short board
\* propagates out of every agent method; integer-valued methods yield this.
IndexError == 99
WinnerIndexError == "IndexError"

----------------------------------------------------------------------------
(* agent.py *)

winning_combinations ==
    << <<0, 1, 2>>, <<3, 4, 5>>, <<6, 7, 8>>,
       <<0, 3, 6>>, <<1, 4, 7>>, <<2, 5, 8>>,
       <<0, 4, 8>>, <<2, 4, 6>> >>

\* One iteration of the loop of _check_winner: the condition
\*   board[c0] is not None and board[c0] == board[c1] == board[c2]
\* evaluated left to right with Python's short-circuiting, on a board that
\* may be shorter than 9.  "win" | "no" | "raise".
combo_test(b, combo) ==
    IF combo[1] >= Len(b) THEN "raise"
    ELSE IF b[combo[1] + 1] = None THEN "no"
    ELSE IF combo[2] >= Len(b) THEN "raise"
    ELSE IF b[combo[1] + 1] # b[combo[2] + 1] THEN "no"
    ELSE IF combo[3] >= Len(b) THEN "raise"
    ELSE IF b[combo[2] + 1] = b[combo[3] + 1] THEN "win"
    ELSE "no"

\* for combo in winning_combinations, from the k-th combination on.
RECURSIVE check_winner_from(_, _)
check_winner_from(b, k) ==
    IF k > Len(winning_combinations) THEN None
    ELSE LET t == combo_test(b, winning_combinations[k])
         IN  IF t = "raise" THEN WinnerIndexError
             ELSE IF t = "win" THEN b[winning_combinations[k][1] + 1]
             ELSE check_winner_from(b, k + 1)

\* Mutant: the combinations are scanned from the last to the first.
check_winner_full_reversed(b) ==
    IF b[3] # None /\ b[3] = b[5] /\ b[5] = b[7] THEN b[3]
    ELSE IF b[1] # None /\ b[1] = b[5] /\ b[5] = b[9] THEN b[1]
    ELSE IF b[3] # None /\ b[3] = b[6] /\ b[6] = b[9] THEN b[3]
    ELSE IF b[2] # None /\ b[2] = b[5] /\ b[5] = b[8] THEN b[2]
    ELSE IF b[1] # None /\ b[1] = b[4] /\ b[4] = b[7] THEN b[1]
    ELSE IF b[7] # None /\ b[7] = b[8] /\ b[8] = b[9] THEN b[7]
    ELSE IF b[4] # None /\ b[4] = b[5] /\ b[5] = b[6] THEN b[4]
    ELSE IF b[1] # None /\ b[1] = b[2] /\ b[2] = b[3] THEN b[1]
    ELSE None

\* The same loop written out for a board of at least 9 cells, where no
\* access can raise: the eight combinations in the order of the list.
check_winner_full(b) ==
    IF b[1] # None /\ b[1] = b[2] /\ b[2] = b[3] THEN b[1]
    ELSE IF b[4] # None /\ b[4] = b[5] /\ b[5] = b[6] THEN b[4]
    ELSE IF b[7] # None /\ b[7] = b[8] /\ b[8] = b[9] THEN b[7]
    ELSE IF b[1] # None /\ b[1] = b[4] /\ b[4] = b[7] THEN b[1]
    ELSE IF b[2] # None /\ b[2] = b[5] /\ b[5] = b[8] THEN b[2]
    ELSE IF b[3] # None /\ b[3] = b[6] /\ b[6] = b[9] THEN b[3]
    ELSE IF b[1] # None /\ b[1] = b[5] /\ b[5] = b[9] THEN b[1]
    ELSE IF b[3] # None /\ b[3] = b[5] /\ b[5] = b[7] THEN b[3]
    ELSE None

check_winner(b) ==
    IF Len(b) >= BoardSize THEN check_winner_full(b)
    ELSE check_winner_from(b, 1)

\* max(score, best_score) and min(score, best_score)
Max(a, b) == IF a > b THEN a ELSE b

\* A min that keeps the higher of the two scores.
Min_keeps_highest(a, b) == IF a >= b THEN a ELSE b

Min(a, b) == IF a < b THEN a ELSE b

opponent_of(ai_player) == IF ai_player = O THEN X ELSE O

\* Mutant: the search stops at the position it is given.
minimax_terminal_only(b, is_maximizing, ai_player) ==
    LET winner == check_winner(b)
    IN  IF winner = WinnerIndexError THEN IndexError
        ELSE IF winner = ai_player THEN 1
        ELSE IF winner # None THEN -1
        ELSE 0

RECURSIVE minimax(_, _, _), minimax_loop(_, _, _, _, _)
minimax(b, is_maximizing, ai_player) ==
    LET winner == check_winner(b)
    IN  IF winner = WinnerIndexError THEN IndexError
        ELSE IF winner = ai_player THEN 1
        ELSE IF winner # None THEN -1
        ELSE IF \A j \in 1..Len(b) : b[j] # None THEN 0
        ELSE minimax_loop(b, is_maximizing, ai_player, 0,
                          IF is_maximizing THEN NegInf ELSE PosInf)

\* for i in range(9): the iterations from i on, with best_score so far.
minimax_loop(b, is_maximizing, ai_player, i, best_score) ==
    IF i = BoardSize THEN best_score
    ELSE IF i >= Len(b) THEN IndexError
    ELSE IF b[i + 1] # None
         THEN minimax_loop(b, is_maximizing, ai_player, i + 1, best_score)
    ELSE LET mover == IF is_maximizing THEN ai_player
                      ELSE opponent_of(ai_player)
             score == minimax([b EXCEPT ![i + 1] = mover],
                              ~is_maximizing, ai_player)
         IN  IF score = IndexError THEN IndexError
             ELSE minimax_loop(b, is_maximizing, ai_player, i + 1,
                               IF is_maximizing THEN Max(score, best_score)
                               ELSE Min(score, best_score))

\* valid_moves = [i for i, cell in enumerate(board) if cell is None]
valid_moves(b) ==
    SelectSeq([k \in 1..Len(b) |-> k - 1], LAMBDA i : b[i + 1] = None)

\* Mutant: an equally good later move replaces the best so far.
better_or_equal(score, best_score) == score >= best_score

\* "if score > best_score": a strictly better move replaces the best so far.
better(score, best_score) == score > best_score

\* The loop of best_move over valid_moves[k..], with the best so far.
RECURSIVE best_move_loop(_, _, _, _, _, _)
best_move_loop(b, p, moves, k, best_score, best_move_idx) ==
    IF k > Len(moves) THEN best_move_idx + 1
    ELSE LET move == moves[k]
             score == minimax([b EXCEPT ![move + 1] = p], FALSE, p)
         IN  IF score = IndexError THEN IndexError
             ELSE IF better(score, best_score)
                  THEN best_move_loop(b, p, moves, k + 1, score, move)
                  ELSE best_move_loop(b, p, moves, k + 1, best_score,
                                      best_move_idx)

\* Mutant: the game_over flag is not looked at.
best_move_ignores_game_over(b, p, game_over, winner) ==
    LET moves == valid_moves(b)
    IN  IF Len(moves) = 0 THEN NoMove
        ELSE best_move_loop(b, p, moves, 1, NegInf, moves[1])

\* Mutant: a board that holds a three-in-a-row is taken to be over.
best_move_stops_at_winner(b, p, game_over, winner) ==
    IF game_over \/ check_winner(b) \in Marks THEN NoMove
    ELSE LET moves == valid_moves(b)
         IN  IF Len(moves) = 0 THEN NoMove
             ELSE best_move_loop(b, p, moves, 1, NegInf, moves[1])

best_move(b, p, game_over, winner) ==
    IF game_over THEN NoMove
    ELSE LET moves == valid_moves(b)
         IN  IF Len(moves) = 0 THEN NoMove
             ELSE best_move_loop(b, p, moves, 1, NegInf, moves[1])

\* Mutant: the first element is always chosen.
choice_first(seq) == {seq[1]}

\* random.choice(valid_moves): any element of the list.
choice(seq) == {seq[k] : k \in 1..Len(seq)}

\* The set of values random_move may return.
random_move(b, p, game_over, winner) ==
    IF game_over THEN {NoMove}
    ELSE LET moves == valid_moves(b)
         IN  IF Len(moves) = 0 THEN {NoMove}
             ELSE {m + 1 : m \in choice(moves)}

\* Mutant: the upper bound of the range test is off by one.
play_move_upper_off_by_one(b, position, p) ==
    IF position < 1 \/ position > BoardSize - 1 THEN NoMove
    ELSE IF position - 1 >= Len(b) THEN IndexError
    ELSE IF b[position] # None THEN NoMove
    ELSE position

play_move(b, position, p) ==
    IF position < 1 \/ position > BoardSize THEN NoMove
    ELSE IF position - 1 >= Len(b) THEN IndexError
    ELSE IF b[position] # None THEN NoMove
    ELSE position

----------------------------------------------------------------------------
(* server_http.py: values *)

\* A Python dict is a record whose field type is "dict"; a key is present
\* iff it is a field.  A JSON value that is no dict is NotADict.
EmptyDict == [type |-> "dict"]
NotADict == [type |-> "null"]
IsDict(d) == d.type = "dict"
Has(d, key) == key \in DOMAIN d

MCP_PROTOCOL_VERSION == "2025-06-30"
SUPPORTED_PROTOCOL_VERSIONS == {"2025-06-30", "2025-06-18", "2025-03-26"}
CONTENT_TYPE_JSON == "application/json"
CONTENT_TYPE_SSE == "text/event-stream"

\* content_type.startswith(CONTENT_TYPE_JSON), on the header values drawn.
StartsWithJson(content_type) ==
    content_type \in {"application/json", "application/json; charset=utf-8"}

\* CONTENT_TYPE_JSON in accept / CONTENT_TYPE_SSE in accept, on the header
\* values drawn.
ContainsJson(accept) ==
    accept \in {"application/json, text/event-stream", "application/json"}
ContainsSse(accept) ==
    accept \in {"application/json, text/event-stream", "text/event-stream"}

\* The session store and the fields of a response.
EmptyStore == [k \in {} |-> k]
NoResult == [type |-> "none"]

\* self.mcp_tools.execute_tool and the catalog: mcp_tools.py
TextContent(msg, p, position) ==
    [msg |-> msg, player |-> p, position |-> position]
CallToolResult(text, isError) == [text |-> text, isError |-> isError]

\* Mutant: no except branch, the exception leaves execute_tool.
ToolRaised_propagates(name) == [raised |-> name]

\* The tool raised inside execute_tool's try: the except branch.
ToolRaised(name) ==
    CallToolResult(TextContent("Error executing tool", name, 0), TRUE)

\* arguments[key] on a value that is no dict, or lacks the key, raises.
Missing(arguments, keys) ==
    ~IsDict(arguments) \/ \E key \in keys : ~Has(arguments, key)

Get(d, key, default) == IF Has(d, key) THEN d[key] ELSE default

\* Python's "not value" for the values a name or a uri takes here: an
\* absent member (None) and the empty string are both false.
Falsy(value) == value \in {None, ""}

\* Mutant: a best move of -1 is reported as an error.
tool_best_move_flags_no_move(b, p, game_over, winner) ==
    LET r == best_move(b, p, game_over, winner)
    IN  IF r = IndexError THEN ToolRaised("best_move")
        ELSE IF r = NoMove
             THEN CallToolResult(
                      TextContent("Could not determine best move for", p, 0),
                      TRUE)
             ELSE CallToolResult(TextContent("Best move for", p, r), FALSE)

\* MCPTools._best_move
tool_best_move(b, p, game_over, winner) ==
    LET r == best_move(b, p, game_over, winner)
    IN  IF r = IndexError THEN ToolRaised("best_move")
        ELSE CallToolResult(TextContent("Best move for", p, r), FALSE)

tool_random_move(b, p, game_over, winner) ==
    {CallToolResult(TextContent("Random move for", p, r), FALSE) :
        r \in random_move(b, p, game_over, winner)}

tool_play_move(b, position, p) ==
    LET r == play_move(b, position, p)
    IN  IF r = IndexError THEN ToolRaised("play_move")
        ELSE IF r = NoMove
             THEN CallToolResult(TextContent("Invalid move", p, position),
                                 TRUE)
             ELSE CallToolResult(TextContent("Move made", p, r), FALSE)

\* The set of results execute_tool may return (random_move draws).
execute_tool(name, arguments) ==
    IF name = "new_game"
        THEN {CallToolResult(TextContent("New game started", "", 1), FALSE)}
    ELSE IF name = "best_move"
        THEN IF Missing(arguments, {"board", "player"})
             THEN {ToolRaised(name)}
             ELSE {tool_best_move(arguments.board, arguments.player,
                                  Get(arguments, "game_over", FALSE),
                                  Get(arguments, "winner", None))}
    ELSE IF name = "random_move"
        THEN IF Missing(arguments, {"board", "player"})
             THEN {ToolRaised(name)}
             ELSE tool_random_move(arguments.board, arguments.player,
                                   Get(arguments, "game_over", FALSE),
                                   Get(arguments, "winner", None))
    ELSE IF name = "play_move"
        THEN IF Missing(arguments, {"board", "position", "player"})
             THEN {ToolRaised(name)}
             ELSE {tool_play_move(arguments.board, arguments.position,
                                  arguments.player)}
    ELSE {CallToolResult(TextContent("Unknown tool", name, 0), TRUE)}

\* server.py: TicTacToeMCPServer._execute_tool_enhanced, the branches for
\* best_move, random_move and play_move after the engine has returned.
enhanced_best_move(b, p, game_over, winner) ==
    LET move == best_move(b, p, game_over, winner)
    IN  IF move = IndexError THEN ToolRaised("best_move")
        ELSE IF move = NoMove
             THEN CallToolResult(
                      TextContent("Could not determine best move for", p, 0),
                      TRUE)
             ELSE CallToolResult(TextContent("Best move for", p, move),
                                 FALSE)

enhanced_random_move(b, p, game_over, winner) ==
    {IF move = NoMove
     THEN CallToolResult(
              TextContent("Could not determine random move for", p, 0), TRUE)
     ELSE CallToolResult(TextContent("Random move for", p, move), FALSE) :
        move \in random_move(b, p, game_over, winner)}

enhanced_play_move(b, position, p) ==
    LET r == play_move(b, position, p)
    IN  IF r = IndexError THEN ToolRaised("play_move")
        ELSE IF r = NoMove
             THEN CallToolResult(TextContent("Invalid move", p, position),
                                 TRUE)
             ELSE CallToolResult(TextContent("Move made", p, r), FALSE)

\* The set of results _execute_tool_enhanced may return.
execute_tool_enhanced(name, arguments) ==
    IF name = "new_game"
        THEN {CallToolResult(TextContent("New game started", "", 1), FALSE)}
    ELSE IF name = "best_move"
        THEN IF Missing(arguments, {"board", "player"})
             THEN {ToolRaised(name)}
             ELSE {enhanced_best_move(arguments.board, arguments.player,
                                      Get(arguments, "game_over", FALSE),
                                      Get(arguments, "winner", None))}
    ELSE IF name = "random_move"
        THEN IF Missing(arguments, {"board", "player"})
             THEN {ToolRaised(name)}
             ELSE enhanced_random_move(arguments.board, arguments.player,
                                       Get(arguments, "game_over", FALSE),
                                       Get(arguments, "winner", None))
    ELSE IF name = "play_move"
        THEN IF Missing(arguments, {"board", "position", "player"})
             THEN {ToolRaised(name)}
             ELSE {enhanced_play_move(arguments.board, arguments.position,
                                      arguments.player)}
    ELSE {CallToolResult(TextContent("Unknown tool", name, 0), TRUE)}

ResourceUris ==
    {"chatttp://game-rules", "chatttp://strategy-guide",
     "chatttp://ai-algorithms", "chatttp://commands-reference"}

\* get_resources: the mimeType the catalog declares for each URI.
get_resources ==
    [uri \in ResourceUris |->
        IF uri \in {"chatttp://strategy-guide", "chatttp://ai-algorithms"}
        THEN "text/markdown" ELSE "text/plain"]

\* A lookup that falls back to the first catalog entry for a URI it does
\* not know.
get_resource_content_falls_back(uri) == "text of chatttp://game-rules"

\* get_resource_content: the text of a catalog URI, "raise" otherwise.
get_resource_content(uri) ==
    IF uri \in ResourceUris THEN "text of " \o uri ELSE "raise"

PromptNames == {"strategy_coach", "game_analyzer", "learning_path"}

\* get_prompt_content: the description of the rendered prompt, "raise"
\* for an unknown name and for game_analyzer without a move history.
get_prompt_content(name, arguments) ==
    LET a == IF IsDict(arguments) THEN arguments ELSE EmptyDict
    IN  IF name = "strategy_coach" THEN "Strategy coaching"
        ELSE IF name = "game_analyzer"
             THEN IF Get(a, "move_history", <<>>) = <<>> THEN "raise"
                  ELSE "Analysis of game"
        ELSE IF name = "learning_path" THEN "Personalized learning path"
        ELSE "raise"

\* A JSON string, and the content object {"type": "text", "text": ...}.
Str(value) == [type |-> "str", value |-> value]
TextObject(text) == [type |-> "text", text |-> text]

\* The "messages" list of the dict get_prompt_content returns for a
\* catalog prompt: one user message whose content is a content object
\* around the rendered template.
prompt_messages(name) ==
    <<[role |-> "user",
       content |-> TextObject(Str("rendered " \o name))]>>

\* _handle_get_prompt, "Convert to MCP format": each message's content is
\* put in the text member of a new content object.
convert_messages(messages) ==
    [k \in 1..Len(messages) |->
        [role |-> messages[k].role,
         content |-> TextObject(messages[k].content)]]

----------------------------------------------------------------------------
(* server_http.py: MCPHTTPHandler *)

\* What a handler leaves behind: the responses written, the session store
\* and the uuids drawn; raised when an exception left the handler.
Outcome(self, responses, raised) ==
    [written |-> responses, sessions |-> self.sessions,
     issued |-> self.issued, raised |-> raised]

send_jsonrpc_response(response, session_id) ==
    [status |-> 200, session |-> session_id, body |-> response]

JsonRpcResult(request_id, res) ==
    [kind |-> "result", id |-> request_id, code |-> 0, message |-> "",
     result |-> res]

\* _send_jsonrpc_response up to end_headers(): the status line and the
\* headers are on the wire, no body follows.
headers_sent(status, session_id) ==
    [status |-> status, session |-> session_id,
     body |-> [kind |-> "none", id |-> None, code |-> 0, message |-> "",
               result |-> NoResult]]

send_jsonrpc_error(request_id, code, message) ==
    send_jsonrpc_response(
        [kind |-> "error", id |-> request_id, code |-> code,
         message |-> message, result |-> NoResult], None)

send_error(code, message, detail) ==
    [status |-> code, session |-> None,
     body |-> [kind |-> "http", id |-> None, code |-> 0,
               message |-> message, result |-> NoResult]]

\* The pool uuid.uuid4() draws from; as many names as sessions are created.
MaxSessions == 2
UuidNames == <<"uuid-1", "uuid-2", "uuid-3", "uuid-4", "uuid-5">>
Uuids == {UuidNames[n] : n \in 1..MaxSessions}

Range(seq) == {seq[k] : k \in 1..Len(seq)}

\* Mutant: uuid4 may return a value it has returned before.
uuid4_repeats(drawn) == Uuids

\* uuid.uuid4(): any value not drawn before (random 122-bit values are
\* taken never to repeat).
uuid4(drawn) == Uuids \ Range(drawn)

handle_initialize(self, request_id, params) ==
    IF ~IsDict(params) THEN {Outcome(self, <<>>, TRUE)}
    ELSE
    LET client_info == Get(params, "clientInfo", EmptyDict)
        capabilities == Get(params, "capabilities", EmptyDict)
        protocol_version ==
            Get(params, "protocolVersion", MCP_PROTOCOL_VERSION)
        session(session_id) ==
            [client_info |-> client_info, capabilities |-> capabilities,
             protocol_version |-> protocol_version,
             created |-> Len(self.issued)]
        response ==
            JsonRpcResult(request_id,
                [type |-> "initialize",
                 protocolVersion |-> MCP_PROTOCOL_VERSION,
                 serverInfo |-> "chattt-ai"])
    IN  {[written |-> <<send_jsonrpc_response(response, session_id)>>,
          sessions |->
              [k \in DOMAIN self.sessions \cup {session_id} |->
                  IF k = session_id THEN session(session_id)
                  ELSE self.sessions[k]],
          issued |-> Append(self.issued, session_id),
          raised |-> FALSE] : session_id \in uuid4(self.issued)}

handle_list_tools(self, request_id) ==
    {Outcome(self, <<send_jsonrpc_response(
        JsonRpcResult(request_id, [type |-> "tools"]), None)>>, FALSE)}

\* Mutant: a result that the tool layer flags as an error is sent as a
\* JSON-RPC error.
handle_call_tool_raises_on_error(self, request_id, params) ==
    IF ~IsDict(params) \/ ~Has(params, "name")
        THEN {Outcome(self, <<send_jsonrpc_error(request_id, -32602,
                                  "Missing tool name")>>, FALSE)}
    ELSE {Outcome(self,
              <<IF r.isError
                THEN send_jsonrpc_error(request_id, -32603,
                                        "Tool execution failed")
                ELSE send_jsonrpc_response(
                         JsonRpcResult(request_id,
                             [type |-> "tool", text |-> r.text,
                              isError |-> r.isError]), None)>>, FALSE) :
              r \in execute_tool(params.name,
                                 Get(params, "arguments", EmptyDict))}

handle_call_tool(self, request_id, params) ==
    IF ~IsDict(params)
        THEN {Outcome(self, <<send_jsonrpc_error(request_id, -32603,
                                  "Tool execution failed")>>, FALSE)}
    ELSE IF Falsy(Get(params, "name", None))
        THEN {Outcome(self, <<send_jsonrpc_error(request_id, -32602,
                                  "Missing tool name")>>, FALSE)}
    ELSE {Outcome(self, <<send_jsonrpc_response(
              JsonRpcResult(request_id,
                  [type |-> "tool", text |-> r.text,
                   isError |-> r.isError]), None)>>, FALSE) :
              r \in execute_tool(params.name,
                                 Get(params, "arguments", EmptyDict))}

handle_list_resources(self, request_id) ==
    {Outcome(self, <<send_jsonrpc_response(
        JsonRpcResult(request_id,
            [type |-> "resources", mimeType |-> get_resources]),
        None)>>, FALSE)}

handle_read_resource(self, request_id, params) ==
    IF ~IsDict(params)
        THEN {Outcome(self, <<send_jsonrpc_error(request_id, -32603,
                                  "Failed to read resource")>>, FALSE)}
    ELSE IF Falsy(Get(params, "uri", None))
        THEN {Outcome(self, <<send_jsonrpc_error(request_id, -32602,
                                  "Missing resource URI")>>, FALSE)}
    ELSE LET content == get_resource_content(params.uri)
         IN  IF content = "raise"
             THEN {Outcome(self, <<send_jsonrpc_error(request_id, -32603,
                                       "Failed to read resource")>>, FALSE)}
             ELSE {Outcome(self, <<send_jsonrpc_response(
                       JsonRpcResult(request_id,
                           [type |-> "resource", uri |-> params.uri,
                            mimeType |-> "text/plain", text |-> content]),
                       None)>>, FALSE)}

\* _handle_list_prompts puts prompt.arguments, a list of PromptArgument
\* objects (mcp.types.Prompt turns the dicts of get_prompts into them), in
\* the response.  _send_jsonrpc_response has sent the status line and the
\* headers when json.dumps raises TypeError on them; the except branch
\* then writes the -32603 response after them.
handle_list_prompts(self, request_id) ==
    {Outcome(self, <<headers_sent(200, None),
                     send_jsonrpc_error(request_id, -32603,
                                        "Failed to list prompts")>>, FALSE)}

\* A handler that looks the prompt up before it checks that a name was
\* given.
handle_get_prompt_delegates_first(self, request_id, params) ==
    LET description ==
            get_prompt_content(Get(params, "name", None),
                               Get(params, "arguments", NotADict))
    IN  IF description = "raise"
        THEN {Outcome(self, <<send_jsonrpc_error(request_id, -32603,
                                  "Failed to get prompt")>>, FALSE)}
        ELSE {Outcome(self, <<send_jsonrpc_response(
                  JsonRpcResult(request_id,
                      [type |-> "prompt", description |-> description]),
                  None)>>, FALSE)}

\* _handle_get_prompt
handle_get_prompt(self, request_id, params) ==
    IF ~IsDict(params)
        THEN {Outcome(self, <<send_jsonrpc_error(request_id, -32603,
                                  "Failed to get prompt")>>, FALSE)}
    ELSE IF Falsy(Get(params, "name", None))
        THEN {Outcome(self, <<send_jsonrpc_error(request_id, -32602,
                                  "Missing prompt name")>>, FALSE)}
    ELSE LET description ==
                 get_prompt_content(params.name,
                                    Get(params, "arguments", NotADict))
         IN  IF description = "raise"
             THEN {Outcome(self, <<send_jsonrpc_error(request_id, -32603,
                                       "Failed to get prompt")>>, FALSE)}
             ELSE {Outcome(self, <<send_jsonrpc_response(
                       JsonRpcResult(request_id,
                           [type |-> "prompt",
                            description |-> description,
                            messages |-> convert_messages(
                                prompt_messages(params.name))]),
                       None)>>, FALSE)}

\* The if/elif chain of _process_mcp_message.
dispatch(self, method, request_id, params) ==
    IF method = "initialize"
        THEN handle_initialize(self, request_id, params)
    ELSE IF method = "notifications/initialized"
        THEN {Outcome(self, <<>>, FALSE)}
    ELSE IF method = "tools/list"
        THEN handle_list_tools(self, request_id)
    ELSE IF method = "tools/call"
        THEN handle_call_tool(self, request_id, params)
    ELSE IF method = "resources/list"
        THEN handle_list_resources(self, request_id)
    ELSE IF method = "resources/read"
        THEN handle_read_resource(self, request_id, params)
    ELSE IF method = "prompts/list"
        THEN handle_list_prompts(self, request_id)
    ELSE IF method = "prompts/get"
        THEN handle_get_prompt(self, request_id, params)
    ELSE {Outcome(self, <<send_jsonrpc_error(request_id, -32601,
                              "Method not found")>>, FALSE)}

\* Mutant: a request that bears an unknown session id is refused.
process_mcp_message_checks_session(self, message) ==
    LET method == Get(message, "method", None)
        request_id == Get(message, "id", None)
    IN  IF /\ method # "initialize"
           /\ self.headers.session_id # None
           /\ self.headers.session_id \notin DOMAIN self.sessions
        THEN {Outcome(self, <<send_jsonrpc_error(request_id, -32600,
                                  "Unknown session")>>, FALSE)}
        ELSE dispatch(self, method, request_id,
                      Get(message, "params", EmptyDict))

\* Mutant: notifications/initialized records in the session named by the
\* header that the client is ready.
process_mcp_message_marks_session(self, message) ==
    LET method == Get(message, "method", None)
        sid == self.headers.session_id
    IN  IF method = "notifications/initialized"
           /\ sid \in DOMAIN self.sessions
        THEN {[Outcome(self, <<>>, FALSE) EXCEPT
                  !.sessions[sid].protocol_version = "initialized"]}
        ELSE dispatch(self, method, Get(message, "id", None),
                      Get(message, "params", EmptyDict))

\* Mutant: a method that is not known is treated as an internal error.
process_mcp_message_unknown_internal(self, message) ==
    LET method == Get(message, "method", None)
        request_id == Get(message, "id", None)
    IN  IF method \notin {"initialize", "notifications/initialized",
                          "tools/list", "tools/call", "resources/list",
                          "resources/read", "prompts/list", "prompts/get"}
        THEN {Outcome(self, <<send_jsonrpc_error(request_id, -32603,
                                  "Internal error")>>, FALSE)}
        ELSE dispatch(self, method, request_id,
                      Get(message, "params", EmptyDict))

\* _process_mcp_message: dispatch, and the except branch that answers an
\* exception leaving a handler with -32603.
process_mcp_message(self, message) ==
    LET method == Get(message, "method", None)
        params == Get(message, "params", EmptyDict)
        request_id == Get(message, "id", None)
    IN  {IF o.raised
         THEN [o EXCEPT !.written =
                   Append(@, send_jsonrpc_error(request_id, -32603,
                                                "Internal error")),
               !.raised = FALSE]
         ELSE o : o \in dispatch(self, method, request_id, params)}

\* Mutant: the error responses of the validation never bear the id.
validate_jsonrpc_message_null_id(message) ==
    IF ~IsDict(message)
        THEN <<send_jsonrpc_error(None, -32600,
                                  "Invalid Request: not an object")>>
    ELSE IF Get(message, "jsonrpc", None) # "2.0"
        THEN <<send_jsonrpc_error(None, -32600,
                                  "Invalid Request: jsonrpc must be '2.0'")>>
    ELSE IF ~Has(message, "method") /\ ~Has(message, "result")
            /\ ~Has(message, "error")
        THEN <<send_jsonrpc_error(None, -32600,
                   "Invalid Request: missing method, result, or error")>>
    ELSE <<>>

\* _validate_jsonrpc_message: the error response it sends, << >> if valid.
validate_jsonrpc_message(message) ==
    IF ~IsDict(message)
        THEN <<send_jsonrpc_error(None, -32600,
                                  "Invalid Request: not an object")>>
    ELSE IF Get(message, "jsonrpc", None) # "2.0"
        THEN <<send_jsonrpc_error(Get(message, "id", None), -32600,
                                  "Invalid Request: jsonrpc must be '2.0'")>>
    ELSE IF ~Has(message, "method") /\ ~Has(message, "result")
            /\ ~Has(message, "error")
        THEN <<send_jsonrpc_error(Get(message, "id", None), -32600,
                   "Invalid Request: missing method, result, or error")>>
    ELSE <<>>

\* Mutant: the Accept header is not checked.
handle_mcp_request_skips_accept(self) ==
    IF ~StartsWithJson(self.headers.content_type)
        THEN {Outcome(self, <<send_error(415, "Unsupported Media Type",
                  "Content-Type must be application/json")>>, FALSE)}
    ELSE IF /\ self.headers.version # None
            /\ self.headers.version \notin SUPPORTED_PROTOCOL_VERSIONS
        THEN {Outcome(self, <<send_error(400, "Bad Request",
                  "Unsupported protocol version")>>, FALSE)}
    ELSE IF self.body.kind # "json"
        THEN {Outcome(self, <<send_error(400, "Bad Request",
                  "Empty request body")>>, FALSE)}
    ELSE LET invalid == validate_jsonrpc_message(self.body.json)
         IN  IF invalid # <<>> THEN {Outcome(self, invalid, FALSE)}
             ELSE process_mcp_message(self, self.body.json)

\* _handle_mcp_request; the worker thread is joined before it returns, so
\* the whole of it is one step.  A Content-Length that is no integer and a
\* body that is no UTF-8 raise ValueError outside the JSON try block: the
\* outer except answers them with HTTP 500.
handle_mcp_request(self) ==
    IF ~StartsWithJson(self.headers.content_type)
        THEN {Outcome(self, <<send_error(415, "Unsupported Media Type",
                  "Content-Type must be application/json")>>, FALSE)}
    ELSE IF ~ContainsJson(self.headers.accept)
            \/ ~ContainsSse(self.headers.accept)
        THEN {Outcome(self, <<send_error(406, "Not Acceptable",
                  "Must accept both")>>, FALSE)}
    ELSE IF /\ self.headers.version # None
            /\ self.headers.version \notin SUPPORTED_PROTOCOL_VERSIONS
        THEN {Outcome(self, <<send_error(400, "Bad Request",
                  "Unsupported protocol version")>>, FALSE)}
    ELSE IF self.body.kind = "bad length"
        THEN {Outcome(self, <<send_error(500, "Internal Server Error",
                  "invalid literal for int()")>>, FALSE)}
    ELSE IF self.body.kind = "empty"
        THEN {Outcome(self, <<send_error(400, "Bad Request",
                  "Empty request body")>>, FALSE)}
    ELSE IF self.body.kind = "not utf-8"
        THEN {Outcome(self, <<send_error(500, "Internal Server Error",
                  "'utf-8' codec can't decode")>>, FALSE)}
    ELSE IF self.body.kind = "not json"
        THEN {Outcome(self, <<send_jsonrpc_error(None, -32700,
                  "Parse error")>>, FALSE)}
    ELSE LET invalid == validate_jsonrpc_message(self.body.json)
         IN  IF invalid # <<>> THEN {Outcome(self, invalid, FALSE)}
             ELSE process_mcp_message(self, self.body.json)

\* do_POST
do_POST(self) ==
    IF self.path = "/mcp" THEN handle_mcp_request(self)
    ELSE {Outcome(self, <<send_error(404, "Not Found", "")>>, FALSE)}

\* do_OPTIONS: the CORS preflight answer, 204 without a body.
do_OPTIONS(self) ==
    {Outcome(self, <<[status |-> 204, session |-> None,
         body |-> [kind |-> "cors", id |-> None, code |-> 0,
                   message |-> "", result |-> NoResult]]>>, FALSE)}

\* do_GET: the health check, the keep-alive event stream, or 404.
do_GET(self) ==
    IF self.path = "/health"
        THEN {Outcome(self, <<[status |-> 200, session |-> None,
                  body |-> [kind |-> "health", id |-> None, code |-> 0,
                            message |-> "healthy",
                            result |-> NoResult]]>>, FALSE)}
    ELSE IF self.path = "/mcp"
        THEN {Outcome(self, <<[status |-> 200,
                  session |-> self.headers.session_id,
                  body |-> [kind |-> "sse", id |-> None, code |-> 0,
                            message |-> "ping",
                            result |-> NoResult]]>>, FALSE)}
    ELSE {Outcome(self, <<send_error(404, "Not Found", "")>>, FALSE)}

----------------------------------------------------------------------------
(* The requests drawn *)

Headers(content_type, accept, version, session_id) ==
    [content_type |-> content_type, accept |-> accept,
     version |-> version, session_id |-> session_id]

AcceptBoth == "application/json, text/event-stream"
\* The session header is absent or bears the first uuid of the pool, which
\* is in the store or not according to the sessions created so far.
SessionHeaders == {None, UuidNames[1]}
GoodHeaders ==
    {Headers(CONTENT_TYPE_JSON, AcceptBoth, None, sid) :
        sid \in SessionHeaders}
AnyHeaders ==
    {Headers(ct, ac, v, sid) :
        ct \in {CONTENT_TYPE_JSON, "application/json; charset=utf-8",
                "text/plain"},
        ac \in {AcceptBoth, CONTENT_TYPE_JSON, CONTENT_TYPE_SSE, ""},
        v \in {None, "2025-06-18", "2024-11-05"},
        sid \in {None}}

\* Boards of the tool calls drawn (few empty cells: the search is short).
ForkBoard == <<None, None, X, X, O, None, O, O, X>>

BoardArguments(b, p) == [type |-> "dict", board |-> b, player |-> p]
MoveArguments(b, p, position) ==
    [type |-> "dict", board |-> b, player |-> p, position |-> position]
ToolCall(name, arguments) ==
    [type |-> "dict", name |-> name, arguments |-> arguments]

ToolCallParams ==
    {EmptyDict, NotADict, [type |-> "dict", name |-> "new_game"],
     [type |-> "dict", arguments |-> EmptyDict],
     ToolCall("new_game", EmptyDict),
     ToolCall("no_tool", EmptyDict),
     ToolCall("", EmptyDict),
     ToolCall("best_move", BoardArguments(ForkBoard, X)),
     ToolCall("best_move", BoardArguments(TieBoard, X)),
     ToolCall("best_move", BoardArguments(<<X, None>>, X)),
     ToolCall("best_move",
              [type |-> "dict", board |-> ForkBoard, player |-> O,
               game_over |-> TRUE, winner |-> X]),
     ToolCall("best_move", EmptyDict),
     ToolCall("best_move", NotADict),
     ToolCall("random_move", BoardArguments(ForkBoard, X)),
     ToolCall("random_move", BoardArguments(TieBoard, O)),
     ToolCall("random_move", EmptyDict),
     ToolCall("play_move", MoveArguments(ForkBoard, X, 6)),
     ToolCall("play_move", MoveArguments(EmptyBoard, X, 5)),
     ToolCall("play_move", MoveArguments(ForkBoard, X, 3)),
     ToolCall("play_move", MoveArguments(ForkBoard, O, 10)),
     ToolCall("play_move", BoardArguments(ForkBoard, X))}

InitializeParams ==
    {EmptyDict, NotADict,
     [type |-> "dict", protocolVersion |-> "2024-11-05",
      clientInfo |-> [type |-> "dict", name |-> "client"],
      capabilities |-> EmptyDict]}

ReadResourceParams ==
    {EmptyDict, NotADict,
     [type |-> "dict", uri |-> "chatttp://game-rules"],
     [type |-> "dict", uri |-> "chatttp://strategy-guide"],
     [type |-> "dict", uri |-> "chatttp://nothing"],
     [type |-> "dict", uri |-> ""]}

GetPromptParams ==
    {EmptyDict, NotADict,
     [type |-> "dict", name |-> "strategy_coach"],
     [type |-> "dict", name |-> "game_analyzer"],
     [type |-> "dict", name |-> "game_analyzer",
      arguments |-> [type |-> "dict", move_history |-> <<5, 1>>]],
     [type |-> "dict", name |-> "learning_path"],
     [type |-> "dict", name |-> "learning_path",
      arguments |-> [type |-> "dict", learning_goals |-> "win more"]],
     [type |-> "dict", name |-> "learning_path",
      arguments |-> [type |-> "dict", current_level |-> "advanced"]],
     [type |-> "dict", name |-> "no_prompt"],
     [type |-> "dict", name |-> ""]}

ParamsOf(method) ==
    IF method = "initialize" THEN InitializeParams
    ELSE IF method = "tools/call" THEN ToolCallParams
    ELSE IF method = "resources/read" THEN ReadResourceParams
    ELSE IF method = "prompts/get" THEN GetPromptParams
    ELSE {EmptyDict}

Methods ==
    {"initialize", "notifications/initialized", "tools/list", "tools/call",
     "resources/list", "resources/read", "prompts/list", "prompts/get",
     "no/method"}

\* Envelopes with jsonrpc "2.0" and a method, with params and without,
\* as requests (with an id) and as notifications (without).
RequestMessages ==
    UNION {
        {[type |-> "dict", jsonrpc |-> "2.0", id |-> "7", method |-> m,
          params |-> p] : p \in ParamsOf(m)} : m \in Methods}
    \cup {[type |-> "dict", jsonrpc |-> "2.0", id |-> "7", method |-> m] :
             m \in Methods}
    \cup {[type |-> "dict", jsonrpc |-> "2.0", method |-> m] :
             m \in Methods}

\* Envelopes that are no request: a wrong or missing jsonrpc, none of
\* method/result/error, a response, and more than one of the three.
OtherMessages ==
    {NotADict,
     [type |-> "dict", jsonrpc |-> "1.0", id |-> "7",
      method |-> "tools/list"],
     [type |-> "dict", id |-> "7", method |-> "tools/list"],
     [type |-> "dict", jsonrpc |-> "2.0", id |-> "7"],
     [type |-> "dict", jsonrpc |-> "2.0"],
     [type |-> "dict", jsonrpc |-> "2.0", id |-> "7", result |-> EmptyDict],
     [type |-> "dict", jsonrpc |-> "2.0", id |-> "7", error |-> EmptyDict],
     [type |-> "dict", jsonrpc |-> "2.0", id |-> "7",
      method |-> "initialize", result |-> EmptyDict],
     [type |-> "dict", jsonrpc |-> "2.0", id |-> "7",
      method |-> "tools/list", result |-> EmptyDict, error |-> EmptyDict]}

Body(kind, json) == [kind |-> kind, json |-> json]
\* The body kinds: Content-Length absent or 0 ("empty"), Content-Length no
\* integer ("bad length"), bytes that are no UTF-8, text that is no JSON,
\* and a JSON value.
Bodies ==
    {Body("empty", NotADict), Body("bad length", NotADict),
     Body("not utf-8", NotADict), Body("not json", NotADict)}
    \cup {Body("json", m) : m \in RequestMessages \cup OtherMessages}

HttpRequest(verb, path, headers, body) ==
    [verb |-> verb, path |-> path, headers |-> headers, body |-> body]

InitializeBody ==
    Body("json", [type |-> "dict", jsonrpc |-> "2.0", id |-> "7",
                  method |-> "initialize", params |-> EmptyDict])

PostRequests ==
    {HttpRequest("POST", "/mcp", h, b) : h \in GoodHeaders, b \in Bodies}
    \cup {HttpRequest("POST", "/mcp", h, b) :
             h \in AnyHeaders, b \in {InitializeBody}}
    \cup {HttpRequest("POST", "/other", h, InitializeBody) :
             h \in GoodHeaders}

GetRequests ==
    {HttpRequest("GET", path, h, Body("empty", NotADict)) :
        path \in {"/health", "/mcp", "/other"}, h \in GoodHeaders}

OptionsRequests ==
    {HttpRequest("OPTIONS", path, h, Body("empty", NotADict)) :
        path \in {"/mcp", "/other"}, h \in GoodHeaders}

NoRequest ==
    HttpRequest("none", "", Headers("", "", None, None),
                Body("empty", NotADict))

\* The handler object of one request: the request and the class attributes.
Handler(req, store, drawn) ==
    [path |-> req.path, headers |-> req.headers, body |-> req.body,
     sessions |-> store, issued |-> drawn]

\* No tool has been executed.
NoToolCall == [name |-> "", arguments |-> NotADict]
ToolIdle ==
    /\ tool_call = NoToolCall
    /\ tool_result = CallToolResult(TextContent("", "", 0), FALSE)

\* No worker thread has been started.
NoOutcome ==
    [written |-> <<>>, sessions |-> EmptyStore, issued |-> <<>>,
     raised |-> FALSE]
ThreadIdle ==
    /\ handler_pc = "idle"
    /\ thread = "none"
    /\ computed = NoOutcome

\* No stream has been opened and no WebSocket is connected.
FastApiIdle ==
    /\ generator = "none"
    /\ events = <<>>
    /\ executed = 0
    /\ active_connections = <<>>
    /\ dead = {}
    /\ attempted = <<>>

HttpIdle ==
    /\ sessions = EmptyStore
    /\ issued = <<>>
    /\ request = NoRequest
    /\ written = <<>>

----------------------------------------------------------------------------
(* Calls of the agent's methods on drawn arguments *)

\* best_move is called on the 9-cell boards with at most MaxEmpty empty
\* cells and on the boards of fewer than 9 cells up to MaxShortLen cells;
\* the other methods on every 9-cell board and the same short boards.
MaxEmpty == 3
MaxShortLen == 2

EmptyCount(b) == Cardinality({j \in 1..Len(b) : b[j] = None})

FullBoards == [1..BoardSize -> Cells]
ShortBoards == UNION {[1..n -> Cells] : n \in 0..MaxShortLen}
Boards == FullBoards \cup ShortBoards

Positions == 0..(BoardSize + 1)
Winners == {X, O, None}
NoArgs ==
    [game_over |-> FALSE, winner |-> None, position |-> 0,
     is_maximizing |-> FALSE]

AgentInit ==
    /\ pc = "ready"
    /\ board \in Boards
    /\ player \in Marks
    /\ op = "none"
    /\ args = NoArgs
    /\ result = NoMove
    /\ winner_found = None
    /\ engines = {}
    /\ HttpIdle
    /\ ToolIdle
    /\ ThreadIdle
    /\ FastApiIdle

CallBestMove ==
    /\ pc = "ready"
    /\ EmptyCount(board) <= MaxEmpty
    /\ \E game_over \in BOOLEAN, winner \in Winners :
          /\ args' = [NoArgs EXCEPT !.game_over = game_over, !.winner = winner]
          /\ result' = best_move(board, player, game_over, winner)
    /\ op' = "best_move"
    /\ pc' = "done"
    /\ UNCHANGED <<board, player, winner_found, engines, http_vars, tool_vars,
                   thread_vars,
                   fastapi_vars>>

CallRandomMove ==
    /\ pc = "ready"
    /\ \E game_over \in BOOLEAN, winner \in Winners :
          /\ args' = [NoArgs EXCEPT !.game_over = game_over, !.winner = winner]
          /\ result' \in random_move(board, player, game_over, winner)
    /\ op' = "random_move"
    /\ pc' = "done"
    /\ UNCHANGED <<board, player, winner_found, engines, http_vars, tool_vars,
                   thread_vars,
                   fastapi_vars>>

CallPlayMove ==
    /\ pc = "ready"
    /\ \E position \in Positions :
          /\ args' = [NoArgs EXCEPT !.position = position]
          /\ result' = play_move(board, position, player)
    /\ op' = "play_move"
    /\ pc' = "done"
    /\ UNCHANGED <<board, player, winner_found, engines, http_vars, tool_vars,
                   thread_vars,
                   fastapi_vars>>

CallCheckWinner ==
    /\ pc = "ready"
    /\ winner_found' = check_winner(board)
    /\ op' = "check_winner"
    /\ pc' = "done"
    /\ UNCHANGED <<board, player, args, result, engines, http_vars, tool_vars,
                   thread_vars,
                   fastapi_vars>>

AgentNext ==
    \/ CallBestMove
    \/ CallRandomMove
    \/ CallPlayMove
    \/ CallCheckWinner

SpecAgent == AgentInit /\ [][AgentNext]_vars

----------------------------------------------------------------------------
(* A game from the empty board: each mark in `engines` is played by        *)
(* best_move, the other marks by any legal move.                           *)

GameOver(b) == check_winner(b) # None \/ EmptyCount(b) = 0

GameInit ==
    /\ pc = "play"
    /\ board = EmptyBoard
    /\ player = X
    /\ op = "none"
    /\ args = NoArgs
    /\ result = NoMove
    /\ winner_found = None
    /\ engines \in SUBSET Marks
    /\ HttpIdle
    /\ ToolIdle
    /\ ThreadIdle
    /\ FastApiIdle

\* The mover asks best_move for a position and its mark is placed there.
EngineMove ==
    /\ pc = "play"
    /\ player \in engines
    /\ ~GameOver(board)
    /\ result' = best_move(board, player, FALSE, None)
    /\ board' = [board EXCEPT ![result'] = player]
    /\ op' = "best_move"
    /\ player' = opponent_of(player)
    /\ UNCHANGED <<pc, args, winner_found, engines, http_vars, tool_vars,
                   thread_vars,
                   fastapi_vars>>

\* The mover places its mark on any cell play_move accepts.
FreeMove ==
    /\ pc = "play"
    /\ player \notin engines
    /\ ~GameOver(board)
    /\ \E position \in Positions :
          /\ play_move(board, position, player) = position
          /\ result' = position
          /\ board' = [board EXCEPT ![position] = player]
    /\ op' = "play_move"
    /\ player' = opponent_of(player)
    /\ UNCHANGED <<pc, args, winner_found, engines, http_vars, tool_vars,
                   thread_vars,
                   fastapi_vars>>

\* The game is over: a three-in-a-row, or no empty cell.
EndGame ==
    /\ pc = "play"
    /\ GameOver(board)
    /\ pc' = "over"
    /\ winner_found' = check_winner(board)
    /\ UNCHANGED <<board, player, op, args, result, engines, http_vars,
                   tool_vars, thread_vars,
                   fastapi_vars>>

GameNext == EngineMove \/ FreeMove \/ EndGame

SpecGame == GameInit /\ [][GameNext]_vars

----------------------------------------------------------------------------
(* execute_tool called with drawn names and arguments *)

MaxToolEmpty == 2
ToolBoards ==
    {b \in FullBoards : EmptyCount(b) <= MaxToolEmpty} \cup ShortBoards
ToolPositions == {0, 1, 5, 9, 10}

\* Argument mappings for a board and a player: no mapping, required keys
\* missing, the required keys of each tool, and the optional keys.
ArgumentsFor(b, p) ==
    {NotADict, EmptyDict, [type |-> "dict", board |-> b],
     [type |-> "dict", player |-> p], BoardArguments(b, p)}
    \cup {[type |-> "dict", board |-> b, position |-> 5]}
    \cup {MoveArguments(b, p, position) : position \in ToolPositions}
    \cup {[type |-> "dict", board |-> b, player |-> p,
           game_over |-> game_over, winner |-> winner] :
             game_over \in BOOLEAN, winner \in {None, X}}

ToolsInit ==
    /\ pc = "tools"
    /\ board \in ToolBoards
    /\ player \in Marks
    /\ op = "none"
    /\ args = NoArgs
    /\ result = NoMove
    /\ winner_found = None
    /\ engines = {}
    /\ HttpIdle
    /\ ToolIdle
    /\ ThreadIdle
    /\ FastApiIdle

ExecuteTool ==
    /\ pc = "tools"
    /\ \E name \in {"new_game", "best_move", "random_move", "play_move",
                     "no_tool"} :
       \E arguments \in ArgumentsFor(board, player) :
       \E r \in execute_tool(name, arguments) :
           /\ tool_call' = [name |-> name, arguments |-> arguments]
           /\ tool_result' = r
    /\ pc' = "called"
    /\ UNCHANGED <<board, player, op, args, result, winner_found, engines,
                   http_vars, thread_vars,
                   fastapi_vars>>

\* The message-stream server's call_tool handler runs the same call
\* through _execute_tool_enhanced.
ExecuteToolEnhanced ==
    /\ pc = "tools"
    /\ \E name \in {"new_game", "best_move", "random_move", "play_move",
                     "no_tool"} :
       \E arguments \in ArgumentsFor(board, player) :
       \E r \in execute_tool_enhanced(name, arguments) :
           /\ tool_call' = [name |-> name, arguments |-> arguments]
           /\ tool_result' = r
    /\ pc' = "called enhanced"
    /\ UNCHANGED <<board, player, op, args, result, winner_found, engines,
                   http_vars, thread_vars,
                   fastapi_vars>>

ToolsNext == ExecuteTool \/ ExecuteToolEnhanced

SpecTools == ToolsInit /\ [][ToolsNext]_vars

----------------------------------------------------------------------------
(* The gateway serving requests *)

HttpInit ==
    /\ pc = "serving"
    /\ board = EmptyBoard
    /\ player = X
    /\ op = "none"
    /\ args = NoArgs
    /\ result = NoMove
    /\ winner_found = None
    /\ engines = {}
    /\ HttpIdle
    /\ ToolIdle
    /\ ThreadIdle
    /\ FastApiIdle

Serve(req, outcomes) ==
    \E o \in outcomes :
        /\ request' = req
        /\ written' = o.written
        /\ sessions' = o.sessions
        /\ issued' = o.issued
        /\ UNCHANGED <<agent_vars, tool_vars, thread_vars,
                   fastapi_vars>>

Post ==
    \E req \in PostRequests :
        Serve(req, do_POST(Handler(req, sessions, issued)))

GetRequest ==
    \E req \in GetRequests :
        Serve(req, do_GET(Handler(req, sessions, issued)))

Options ==
    \E req \in OptionsRequests :
        Serve(req, do_OPTIONS(Handler(req, sessions, issued)))

HttpNext == Post \/ GetRequest \/ Options

Spec == HttpInit /\ [][HttpNext]_vars

----------------------------------------------------------------------------
(* Properties of the agent *)

IsFull9(b) == Len(b) = BoardSize
Empties(b) == {i \in 0..(Len(b) - 1) : b[i + 1] = None}
Lowest(S) == CHOOSE i \in S : \A j \in S : i <= j

\* The eight triples as the rules of the game give them: row r, column c,
\* the two diagonals (Python indices), in the order rows, columns, diagonals.
Triple(k) ==
    IF k <= 3 THEN {3 * (k - 1) + j : j \in 0..2}
    ELSE IF k <= 6 THEN {(k - 4) + 3 * j : j \in 0..2}
    ELSE IF k = 7 THEN {4 * j : j \in 0..2}
    ELSE {2 + 2 * j : j \in 0..2}

\* Triple k holds three identical non-empty cells.
Held(b, k) ==
    \E m \in Marks : \A i \in Triple(k) : b[i + 1] = m

\* The empty cells that complete a three-in-a-row for p when p is placed.
WinningCells(b, p) ==
    {i \in Empties(b) :
        \E k \in 1..8 : i \in Triple(k) /\ Held([b EXCEPT ![i + 1] = p], k)}

Count(b, m) == Cardinality({j \in 1..Len(b) : b[j] = m})

\* A position of a game in which X moved first, nobody has won and p is to move.
LegalPosition(b, p) ==
    /\ IsFull9(b)
    /\ \A k \in 1..8 : ~Held(b, k)
    /\ \/ p = X /\ Count(b, X) = Count(b, O)
       \/ p = O /\ Count(b, X) = Count(b, O) + 1

BestMoveReturned == pc = "done" /\ op = "best_move"
RandomMoveReturned == pc = "done" /\ op = "random_move"
PlayMoveReturned == pc = "done" /\ op = "play_move"
CheckWinnerReturned == pc = "done" /\ op = "check_winner"

\* C1: from the empty board with X to move, when both marks are played by
\* best_move nobody ever has a three-in-a-row, and the game is over only on
\* a full board without a winner (a tie).
C1_SelfPlayTies ==
    engines = Marks =>
        /\ check_winner(board) = None
        /\ pc = "over" => EmptyCount(board) = 0 /\ winner_found = None

C1_Witness ==
    /\ engines = Marks
    /\ pc = "over"
    /\ EmptyCount(board) = 0
    /\ check_winner(board) = None

\* C2: on a board where exactly one empty cell completes a three-in-a-row
\* for player, best_move returns that cell's position.  Stated for the
\* positions of a legal game with player to move.
C2_TakesImmediateWin ==
    (/\ BestMoveReturned
     /\ ~args.game_over
     /\ LegalPosition(board, player)
     /\ Cardinality(WinningCells(board, player)) = 1)
        => result = 1 + Lowest(WinningCells(board, player))

\* C3: best_move and random_move return -1 whenever game_over is true or the
\* board has no empty cell, whatever the board (of any length, so that a
\* board that cannot be indexed is not touched), the player and the winner.
C3_NoMoveWhenOver ==
    ((BestMoveReturned \/ RandomMoveReturned)
     /\ (args.game_over \/ EmptyCount(board) = 0))
        => result = NoMove

C3_Witness ==
    /\ BestMoveReturned
    /\ args.game_over
    /\ args.winner = O
    /\ Len(board) < BoardSize
    /\ EmptyCount(board) > 0
    /\ result = NoMove

\* C4: with game_over false and an empty cell on the board, the values
\* random_move can return are exactly the positions i + 1 of the empty
\* cells, and the value it returned is one of them.
C4_RandomMoveRange ==
    EmptyCount(board) > 0 =>
        /\ \A w \in Winners :
              random_move(board, player, FALSE, w)
                  = {i + 1 : i \in Empties(board)}
        /\ (RandomMoveReturned /\ ~args.game_over) =>
              /\ result \in 1..Len(board)
              /\ board[result] = None

C4_Witness ==
    /\ RandomMoveReturned
    /\ ~args.game_over
    /\ IsFull9(board)
    /\ EmptyCount(board) = 3
    /\ \A i \in Empties(board) : i + 1 <= result
    /\ result = BoardSize

C6_CheckWinner ==
    (CheckWinnerReturned /\ IsFull9(board)) =>
        LET held == {k \in 1..8 : Held(board, k)}
        IN  /\ held = {} => winner_found = None
            /\ held # {} =>
                  winner_found = board[Lowest(Triple(Lowest(held))) + 1]
            /\ winner_found \in Marks <=> held # {}
            /\ board \in {EmptyBoard, TieBoard}
                  => winner_found = None

\* The first row is held by O and the last row by X: the first row wins.
C6_Witness ==
    /\ CheckWinnerReturned
    /\ IsFull9(board)
    /\ Held(board, 1) /\ Held(board, 3)
    /\ board[1] = O /\ board[BoardSize] = X
    /\ winner_found = O

\* C7: with game_over false, on a 9-cell board with an empty cell best_move
\* returns 1 + the lowest index among the empty cells whose minimax value
\* (opponent to move) is the highest, whatever the winner argument.
MoveValue(b, p, i) == minimax([b EXCEPT ![i + 1] = p], FALSE, p)

C7_LowestBestMove ==
    (BestMoveReturned /\ ~args.game_over /\ IsFull9(board)
     /\ EmptyCount(board) > 0) =>
        LET value == [i \in Empties(board) |-> MoveValue(board, player, i)]
            top == {i \in Empties(board) :
                       \A j \in Empties(board) : value[j] <= value[i]}
        IN  result = 1 + Lowest(top)

\* Two moves share the highest value, a lower cell has a lower value, and
\* the lower of the two best is returned.
C7_Witness ==
    /\ BestMoveReturned /\ ~args.game_over /\ IsFull9(board)
    /\ args.winner = X
    /\ Empties(board) = {0, 4, 8}
    /\ MoveValue(board, player, 0) < MoveValue(board, player, 4)
    /\ MoveValue(board, player, 4) = MoveValue(board, player, 8)
    /\ result = 5

----------------------------------------------------------------------------
(* Properties of the gateway *)

\* The request passes the header checks of _handle_mcp_request and bears a
\* JSON-RPC envelope that _validate_jsonrpc_message accepts.
Dispatched(req) ==
    /\ req.verb = "POST" /\ req.path = "/mcp"
    /\ StartsWithJson(req.headers.content_type)
    /\ ContainsJson(req.headers.accept) /\ ContainsSse(req.headers.accept)
    /\ req.headers.version \in {None} \cup SUPPORTED_PROTOCOL_VERSIONS
    /\ req.body.kind = "json"
    /\ validate_jsonrpc_message(req.body.json) = <<>>

MethodOf(req) == Get(req.body.json, "method", None)
ParamsIn(req) == Get(req.body.json, "params", EmptyDict)

\* An initialize request with an object (or no) params member.
IsInitialize(req) ==
    Dispatched(req) /\ MethodOf(req) = "initialize" /\ IsDict(ParamsIn(req))

\* The store after a step holds every entry it held before, unchanged.
EntriesKept ==
    \A k \in DOMAIN sessions :
        k \in DOMAIN sessions' /\ sessions'[k] = sessions[k]

Answers(req, sid, store, drawn) ==
    {o.written :
        o \in do_POST(Handler([req EXCEPT !.headers.session_id = sid],
                              store, drawn))}

UnknownSession == "uuid-unknown"

\* C9: a POST whose method is not initialize is answered the same whether
\* or not initialize was served before (the store is empty or not), whether
\* or not it bears a session header, and whether or not the session id it
\* bears is in the store.
C9_SessionAdvisory ==
    (request.verb = "POST" /\ ~(Dispatched(request)
                                /\ MethodOf(request) = "initialize")) =>
        \A sid \in {None, UnknownSession} \cup Uuids :
            \A store \in {EmptyStore, sessions} :
                /\ Answers(request, sid, store, issued)
                       = Answers(request, None, EmptyStore, <<>>)
                /\ written \in Answers(request, sid, store, issued)

\* A tool call that bears a session id absent from a non-empty store has
\* been answered with the tool's result.
C9_Witness ==
    /\ Dispatched(request) /\ MethodOf(request) = "tools/call"
    /\ sessions # EmptyStore
    /\ request.headers.session_id \in Uuids \ DOMAIN sessions
    /\ Len(written) = 1
    /\ written[1].body.kind = "result"
    /\ ~written[1].body.result.isError

\* C10: an initialize request whose params.protocolVersion is not in
\* SUPPORTED_PROTOCOL_VERSIONS is rejected (no result is written) and no
\* session is created by it.
C10_UnsupportedVersionRejected ==
    [][(/\ IsInitialize(request')
        /\ Has(ParamsIn(request'), "protocolVersion")
        /\ ParamsIn(request').protocolVersion
               \notin SUPPORTED_PROTOCOL_VERSIONS) =>
            /\ sessions' = sessions
            /\ \A k \in 1..Len(written') :
                   written'[k].body.kind # "result"]_vars

\* A valid request envelope: it is dispatched and bears a method and
\* neither a result nor an error.
IsRequestEnvelope(req) ==
    /\ Dispatched(req)
    /\ Has(req.body.json, "method")
    /\ ~Has(req.body.json, "result") /\ ~Has(req.body.json, "error")

HasId(req) ==
    req.body.kind = "json" /\ IsDict(req.body.json) /\ Has(req.body.json, "id")

\* C11: a notification (a valid request envelope without an id) is never
\* answered: nothing is written for it, whatever its method.
C11_NotificationNoReply ==
    (IsRequestEnvelope(request) /\ ~HasId(request)) => written = <<>>

KnownMethods ==
    {"initialize", "notifications/initialized", "tools/list", "tools/call",
     "resources/list", "resources/read", "prompts/list", "prompts/get"}

\* C12: a valid request envelope whose method is none of the eight known
\* methods is answered with the JSON-RPC error -32601, whatever the session
\* store holds, and leaves the session store as it was.
C12_UnknownMethodNotFound ==
    [][(IsRequestEnvelope(request') /\ MethodOf(request') \notin KnownMethods)
        => /\ Len(written') = 1
           /\ written'[1].status = 200
           /\ written'[1].body.kind = "error"
           /\ written'[1].body.code = -32601
           /\ sessions' = sessions]_vars

\* An unknown method has been answered -32601 after a session was created.
C12_Witness ==
    /\ IsRequestEnvelope(request) /\ HasId(request)
    /\ MethodOf(request) = "no/method"
    /\ sessions # EmptyStore
    /\ Len(written) = 1 /\ written[1].body.code = -32601

BadContentType(req) == ~StartsWithJson(req.headers.content_type)
BadAccept(req) ==
    ~ContainsJson(req.headers.accept) \/ ~ContainsSse(req.headers.accept)
BadVersion(req) ==
    req.headers.version \notin {None} \cup SUPPORTED_PROTOCOL_VERSIONS
EmptyBody(req) == req.body.kind = "empty"

FailsTransport(req) ==
    /\ req.verb = "POST" /\ req.path = "/mcp"
    /\ BadContentType(req) \/ BadAccept(req) \/ BadVersion(req)
       \/ EmptyBody(req)

\* C13: a POST /mcp that fails a transport check is answered with one HTTP
\* error and no JSON-RPC envelope: 415 for the Content-Type, else 406 for
\* the Accept header, else 400 for the protocol version header or the empty
\* body; it is not dispatched: the session store is left as it was.
C13_TransportErrors ==
    [][FailsTransport(request')
        => /\ Len(written') = 1
           /\ written'[1].body.kind = "http"
           /\ written'[1].session = None
           /\ written'[1].status =
                  IF BadContentType(request') THEN 415
                  ELSE IF BadAccept(request') THEN 406
                  ELSE 400
           /\ sessions' = sessions]_vars

\* An initialize request that accepts JSON only has been answered 406 and
\* no session exists.
C13_Witness ==
    /\ request.verb = "POST" /\ request.body = InitializeBody
    /\ ~BadContentType(request)
    /\ request.headers.accept = CONTENT_TYPE_JSON
    /\ Len(written) = 1 /\ written[1].status = 406
    /\ sessions = EmptyStore

PostMcp(req) == req.verb = "POST" /\ req.path = "/mcp"

\* The members of method, result, error that a message bears.
Members(message) == {"method", "result", "error"} \cap DOMAIN message

\* The only response written is the JSON-RPC error with this code.
AnsweredWithError(code) ==
    /\ Len(written) = 1
    /\ written[1].status = 200
    /\ written[1].body.kind = "error"
    /\ written[1].body.code = code

\* C14: a decoded object is accepted only if its jsonrpc member is "2.0"
\* and it bears exactly one of method, result, error; every other object
\* is answered with the error -32600 and is not dispatched.
C14_ExactlyOneMember ==
    (/\ PostMcp(request) /\ ~FailsTransport(request)
     /\ request.body.kind = "json" /\ IsDict(request.body.json)
     /\ ~(/\ Get(request.body.json, "jsonrpc", None) = "2.0"
          /\ Cardinality(Members(request.body.json)) = 1))
        => AnsweredWithError(-32600)

\* The JSON-RPC responses among those written.
JsonRpcWritten ==
    {k \in 1..Len(written) : written[k].body.kind \in {"result", "error"}}

\* C15: every JSON-RPC response written for a request that bears an id has
\* that id; a response has a null id only if the body was no JSON or no
\* object.
C15_IdEchoed ==
    PostMcp(request) =>
        \A k \in JsonRpcWritten :
            /\ HasId(request) => written[k].body.id = request.body.json.id
            /\ written[k].body.id = None =>
                   \/ request.body.kind = "not json"
                   \/ request.body.kind = "json" /\ ~IsDict(request.body.json)

\* C15 as amended: every JSON-RPC response written for a request that bears
\* an id has that id; a response has a null id only if the request bore no
\* id (no JSON, no object, or an object without an id member).
C15_IdEchoedOrAbsent ==
    PostMcp(request) =>
        \A k \in JsonRpcWritten :
            /\ HasId(request) => written[k].body.id = request.body.json.id
            /\ written[k].body.id = None => ~HasId(request)

\* An envelope with jsonrpc "1.0" and an id has been refused with that id.
C15_Witness ==
    /\ PostMcp(request) /\ HasId(request)
    /\ Get(request.body.json, "jsonrpc", None) = "1.0"
    /\ AnsweredWithError(-32600)
    /\ written[1].body.id = request.body.json.id

\* C16: every response to a POST /mcp that bears the identifier of a
\* session of the store carries that identifier in its session header.
C16_SessionHeaderEchoed ==
    [][(/\ PostMcp(request')
        /\ request'.headers.session_id \in DOMAIN sessions)
        => \A k \in 1..Len(written') :
               written'[k].session = request'.headers.session_id]_vars

ToolNames == {"new_game", "best_move", "random_move", "play_move"}

\* The request is a dispatched tools/call that names a tool.
NamesTool(req) ==
    /\ Dispatched(req) /\ MethodOf(req) = "tools/call"
    /\ IsDict(ParamsIn(req)) /\ ~Falsy(Get(ParamsIn(req), "name", None))

ArgumentsIn(req) == Get(ParamsIn(req), "arguments", EmptyDict)

\* play_move is given a position of the board that is empty.
LegalPlay(a) ==
    /\ ~Missing(a, {"board", "position", "player"})
    /\ a.position \in 1..BoardSize
    /\ a.position <= Len(a.board)
    /\ a.board[a.position] = None

\* The call fails in the tool layer: an unknown tool, a required argument
\* that is missing, or a move that is not legal.
FailsInTool(name, a) ==
    \/ name \notin ToolNames
    \/ name \in {"best_move", "random_move"} /\ Missing(a, {"board", "player"})
    \/ name = "play_move" /\ ~LegalPlay(a)

\* The engine raises on the call: a cell of the board that a search or a
\* validation reads does not exist.
EngineRaises(name, a) ==
    \/ /\ name = "best_move" /\ ~Missing(a, {"board", "player"})
       /\ best_move(a.board, a.player, Get(a, "game_over", FALSE),
                    Get(a, "winner", None)) = IndexError
    \/ /\ name = "play_move" /\ ~Missing(a, {"board", "position", "player"})
       /\ play_move(a.board, a.position, a.player) = IndexError

C18_ToolErrorsAreResults ==
    NamesTool(request) =>
        LET name == ParamsIn(request).name
            a == ArgumentsIn(request)
        IN  /\ Len(written) = 1
            /\ written[1].status = 200
            /\ written[1].body.kind = "result"
            /\ FailsInTool(name, a) =>
                   /\ written[1].body.result.isError
                   /\ written[1].body.result.text.msg # ""
            /\ (name = "play_move" /\ LegalPlay(a)) =>
                   /\ ~written[1].body.result.isError
                   /\ written[1].body.result.text =
                          TextContent("Move made", a.player, a.position)

\* play_move of position 5 on the empty board for X has been confirmed once
\* a session exists.
C18_Witness ==
    /\ NamesTool(request) /\ ParamsIn(request).name = "play_move"
    /\ ArgumentsIn(request) = MoveArguments(EmptyBoard, X, 5)
    /\ Len(written) = 1
    /\ ~written[1].body.result.isError
    /\ written[1].body.result.text.position = 5
    /\ sessions # EmptyStore

\* C19: every POST /mcp that bears an id has exactly one response written.
C19_ExactlyOneResponse ==
    (PostMcp(request) /\ HasId(request)) => Len(written) = 1

\* C20: a POST /mcp that passes the transport checks and whose body is no
\* JSON is answered HTTP 200 with the error -32700 and a null id; one whose
\* JSON is no object, bears a jsonrpc other than "2.0" or none of method,
\* result, error is answered HTTP 200 with the error -32600; neither is
\* dispatched: the session store is left as it was.
C20_ProtocolErrors ==
    [][(PostMcp(request') /\ ~FailsTransport(request'))
        => /\ request'.body.kind \in {"not utf-8", "not json"}
              => /\ Len(written') = 1
                 /\ written'[1].status = 200
                 /\ written'[1].body.kind = "error"
                 /\ written'[1].body.code = -32700
                 /\ written'[1].body.id = None
                 /\ sessions' = sessions
           /\ (/\ request'.body.kind = "json"
               /\ \/ ~IsDict(request'.body.json)
                  \/ Get(request'.body.json, "jsonrpc", None) # "2.0"
                  \/ Members(request'.body.json) = {})
              => /\ Len(written') = 1
                 /\ written'[1].status = 200
                 /\ written'[1].body.kind = "error"
                 /\ written'[1].body.code = -32600
                 /\ sessions' = sessions]_vars

----------------------------------------------------------------------------
(* Properties of the catalog lookups behind the gateway *)

\* The request is dispatched with this method and an object for params.
Asks(req, method) ==
    Dispatched(req) /\ MethodOf(req) = method /\ IsDict(ParamsIn(req))

\* The request names a member (a uri, a name) with a value that is not
\* false in Python.
Names(req, method, key) ==
    Asks(req, method) /\ ~Falsy(Get(ParamsIn(req), key, None))

\* C21: resources/read of a URI outside the four catalog URIs and
\* prompts/get of a name outside the three catalog prompts are answered
\* with one JSON-RPC error (-32603, the lookup raised) and never with a
\* result: no content is returned for an unknown URI or name.
C21_UnknownEntryFails ==
    /\ (Names(request, "resources/read", "uri")
            /\ ParamsIn(request).uri \notin ResourceUris)
           => AnsweredWithError(-32603)
    /\ (Names(request, "prompts/get", "name")
            /\ ParamsIn(request).name \notin PromptNames)
           => AnsweredWithError(-32603)

\* An unknown URI has been read and answered with the error.
C21_Witness ==
    /\ Names(request, "resources/read", "uri")
    /\ ParamsIn(request).uri = "chatttp://nothing"
    /\ AnsweredWithError(-32603)
    /\ written[1].body.message = "Failed to read resource"

\* The arguments a prompts/get passes to get_prompt_content.
PromptArguments(req) ==
    LET a == Get(ParamsIn(req), "arguments", NotADict)
    IN  IF IsDict(a) THEN a ELSE EmptyDict

\* The arguments the catalog (get_prompts) declares as required.
RequiredArguments(name) ==
    IF name = "game_analyzer" THEN {"move_history"}
    ELSE IF name = "learning_path" THEN {"current_level"}
    ELSE {}

\* C22: a prompts/get of a catalog prompt that lacks an argument the
\* catalog declares required fails: game_analyzer without move_history and
\* learning_path without current_level are answered with an error, not
\* with a rendered prompt.
C22_RequiredArgumentMissingFails ==
    (Names(request, "prompts/get", "name")
        /\ ParamsIn(request).name \in PromptNames
        /\ \E key \in RequiredArguments(ParamsIn(request).name) :
               ~Has(PromptArguments(request), key))
       => AnsweredWithError(-32603)

----------------------------------------------------------------------------
(* server_http.py: the worker thread of _handle_mcp_request, step by step *)

\* A join that returns at once (a join with a zero timeout, or none).
join_without_waiting(worker) == TRUE

\* thread.join(): returns once the thread has terminated.
join(worker) == worker = "finished"

HandoffInit ==
    /\ pc = "handoff"
    /\ board = EmptyBoard
    /\ player = X
    /\ op = "none"
    /\ args = NoArgs
    /\ result = NoMove
    /\ winner_found = None
    /\ engines = {}
    /\ HttpIdle
    /\ ToolIdle
    /\ ThreadIdle
    /\ FastApiIdle

\* A request fails a check of _handle_mcp_request (or of do_POST) before
\* the thread is created: the error is written on the server's thread.
Reject ==
    /\ handler_pc = "idle"
    /\ \E req \in PostRequests :
           /\ ~Dispatched(req)
           /\ \E o \in do_POST(Handler(req, sessions, issued)) :
                  /\ request' = req
                  /\ written' = o.written
    /\ handler_pc' = "returned"
    /\ UNCHANGED <<agent_vars, tool_vars, sessions, issued, thread, computed,
                   fastapi_vars>>

\* thread.start(): the message passed the validation, run_async begins.
StartThread ==
    /\ handler_pc = "idle"
    /\ \E req \in PostRequests :
           /\ Dispatched(req)
           /\ request' = req
    /\ written' = <<>>
    /\ handler_pc' = "join"
    /\ thread' = "started"
    /\ UNCHANGED <<agent_vars, tool_vars, sessions, issued, computed,
                   fastapi_vars>>

\* The worker runs _process_mcp_message up to the point where the method
\* handler has its result (the awaited execute_tool, catalog lookup or
\* session entry) and has not written yet.
Compute ==
    /\ thread = "started"
    /\ \E o \in process_mcp_message(
                    Handler(request, sessions, issued), request.body.json) :
           /\ computed' = o
           /\ sessions' = o.sessions
           /\ issued' = o.issued
    /\ thread' = "computed"
    /\ UNCHANGED <<agent_vars, tool_vars, request, written, handler_pc,
                   fastapi_vars>>

\* The handler writes its response(s) from the worker thread.
Respond ==
    /\ thread = "computed"
    /\ written' = computed.written
    /\ thread' = "responded"
    /\ UNCHANGED <<agent_vars, tool_vars, sessions, issued, request,
                   handler_pc, computed,
                   fastapi_vars>>

\* run_async puts the result on its queue, closes the loop and ends.
Finish ==
    /\ thread = "responded"
    /\ thread' = "finished"
    /\ UNCHANGED <<agent_vars, tool_vars, http_vars, handler_pc, computed,
                   fastapi_vars>>

\* thread.join() returns, the exception queue is found empty and
\* _handle_mcp_request returns to the transport loop.
Return ==
    /\ handler_pc = "join"
    /\ join(thread)
    /\ handler_pc' = "returned"
    /\ UNCHANGED <<agent_vars, tool_vars, http_vars, thread, computed,
                   fastapi_vars>>

\* The transport loop takes the next request.
NextRequest ==
    /\ handler_pc = "returned"
    /\ handler_pc' = "idle"
    /\ thread' = "none"
    /\ computed' = NoOutcome
    /\ written' = <<>>
    /\ request' = NoRequest
    /\ UNCHANGED <<agent_vars, tool_vars, sessions, issued,
                   fastapi_vars>>

HandoffNext ==
    \/ Reject \/ StartThread \/ Compute \/ Respond \/ Finish \/ Return
    \/ NextRequest

SpecHandoff == HandoffInit /\ [][HandoffNext]_vars

\* C24: the handoff to the worker thread is synchronous: a response of a
\* dispatched request is on the connection only when the handler's
\* computation is complete, and it is what was computed; and
\* _handle_mcp_request has returned only when the worker has finished.
C24_SynchronousHandoff ==
    /\ (Dispatched(request) /\ written # <<>>) =>
           /\ thread \in {"responded", "finished"}
           /\ written = computed.written
    /\ (Dispatched(request) /\ thread \in {"started", "computed"}) =>
           written = <<>>
    /\ (Dispatched(request) /\ handler_pc = "returned") =>
           thread = "finished"

\* A tools/call has been computed, answered and joined: the handler has
\* returned with the one response on the connection.
C24_Witness ==
    /\ NamesTool(request)
    /\ handler_pc = "returned"
    /\ thread = "finished"
    /\ Len(written) = 1
    /\ written[1].body.kind = "result"

----------------------------------------------------------------------------
(* agent.py: the search on the list object it is given.  A Python list is  *)
(* passed by reference: these operators return, next to the value, the     *)
(* cells the list holds when the call ends.                                *)

Returned(value, cells) == [value |-> value, cells |-> cells]

\* A placement that leaves the cell empty.
place_forgotten(b, i, mark) == b

\* board[i] = ai_player, board[i] = opponent
place(b, i, mark) == [b EXCEPT ![i + 1] = mark]

\* An undo that leaves the cell as it is.
undo_forgotten(b, i) == b

\* board[i] = None
undo(b, i) == [b EXCEPT ![i + 1] = None]

\* A copy that is the same list object (board_copy = board).
copy_is_alias(b) == [alias |-> TRUE, cells |-> b]

\* board.copy(): a new list with the same cells.
copy(b) == [alias |-> FALSE, cells |-> b]

RECURSIVE minimax_in_place(_, _, _), minimax_in_place_loop(_, _, _, _, _)
minimax_in_place(b, is_maximizing, ai_player) ==
    LET winner == check_winner(b)
    IN  IF winner = WinnerIndexError THEN Returned(IndexError, b)
        ELSE IF winner = ai_player THEN Returned(1, b)
        ELSE IF winner # None THEN Returned(-1, b)
        ELSE IF \A j \in 1..Len(b) : b[j] # None THEN Returned(0, b)
        ELSE minimax_in_place_loop(b, is_maximizing, ai_player, 0,
                                   IF is_maximizing THEN NegInf ELSE PosInf)

\* for i in range(9): the iterations from i on; b is the list as the
\* earlier iterations left it.
minimax_in_place_loop(b, is_maximizing, ai_player, i, best_score) ==
    IF i = BoardSize THEN Returned(best_score, b)
    ELSE IF i >= Len(b) THEN Returned(IndexError, b)
    ELSE IF b[i + 1] # None
         THEN minimax_in_place_loop(b, is_maximizing, ai_player, i + 1,
                                    best_score)
    ELSE LET mover == IF is_maximizing THEN ai_player
                      ELSE opponent_of(ai_player)
             r == minimax_in_place(place(b, i, mover), ~is_maximizing,
                                   ai_player)
         IN  IF r.value = IndexError THEN r
             ELSE minimax_in_place_loop(undo(r.cells, i), is_maximizing,
                      ai_player, i + 1,
                      IF is_maximizing THEN Max(r.value, best_score)
                      ELSE Min(r.value, best_score))

\* The loop of best_move over valid_moves[k..]; b is the caller's list as
\* the earlier iterations left it.
RECURSIVE best_move_in_place_loop(_, _, _, _, _, _)
best_move_in_place_loop(b, p, moves, k, best_score, best_move_idx) ==
    IF k > Len(moves) THEN Returned(best_move_idx + 1, b)
    ELSE LET move == moves[k]
             board_copy == copy(b)
             r == minimax_in_place(place(board_copy.cells, move, p),
                                   FALSE, p)
             after == IF board_copy.alias THEN r.cells ELSE b
         IN  IF r.value = IndexError THEN Returned(IndexError, after)
             ELSE IF better(r.value, best_score)
                  THEN best_move_in_place_loop(after, p, moves, k + 1,
                                               r.value, move)
                  ELSE best_move_in_place_loop(after, p, moves, k + 1,
                                               best_score, best_move_idx)

best_move_in_place(b, p, game_over, winner) ==
    IF game_over THEN Returned(NoMove, b)
    ELSE LET moves == valid_moves(b)
         IN  IF Len(moves) = 0 THEN Returned(NoMove, b)
             ELSE best_move_in_place_loop(b, p, moves, 1, NegInf, moves[1])

\* The lists the search is called on: up to MaxEmpty empty cells.
SearchBoards == {b \in Boards : EmptyCount(b) <= MaxEmpty}

SearchInit ==
    /\ pc = "search"
    /\ board \in SearchBoards
    /\ player \in Marks
    /\ op = "none"
    /\ args = NoArgs
    /\ result = NoMove
    /\ winner_found = None
    /\ engines = {}
    /\ HttpIdle
    /\ ToolIdle
    /\ ThreadIdle
    /\ FastApiIdle

\* _minimax(board, is_maximizing, player): board is the list afterwards.
SearchMinimax ==
    /\ pc = "search"
    /\ \E is_maximizing \in BOOLEAN :
          LET r == minimax_in_place(board, is_maximizing, player)
          IN  /\ args' = [NoArgs EXCEPT !.is_maximizing = is_maximizing]
              /\ result' = r.value
              /\ board' = r.cells
    /\ op' = "minimax"
    /\ pc' = "searched"
    /\ UNCHANGED <<player, winner_found, engines, http_vars, tool_vars,
                   thread_vars,
                   fastapi_vars>>

\* best_move(board, player, game_over, winner): board is the caller's list
\* afterwards.
SearchBestMove ==
    /\ pc = "search"
    /\ \E game_over \in BOOLEAN :
          LET r == best_move_in_place(board, player, game_over, None)
          IN  /\ args' = [NoArgs EXCEPT !.game_over = game_over]
              /\ result' = r.value
              /\ board' = r.cells
    /\ op' = "best_move"
    /\ pc' = "searched"
    /\ UNCHANGED <<player, winner_found, engines, http_vars, tool_vars,
                   thread_vars,
                   fastapi_vars>>

SearchNext == SearchMinimax \/ SearchBestMove

SpecSearch == SearchInit /\ [][SearchNext]_vars

\* C25: best_move leaves the caller's board as it was, whether it returns a
\* move or -1, and every _minimax call that returns leaves its board
\* argument with the cells it had on entry.
C25_BoardUnchanged ==
    [][(result' # IndexError) => (board' = board)]_vars

\* best_move has searched a board with three empty cells (the search
\* placed and removed marks two levels deep) and returned a move.
C25_Witness ==
    /\ pc = "searched" /\ op = "best_move"
    /\ Len(board) = BoardSize /\ EmptyCount(board) = 3
    /\ result \in 1..BoardSize

Highest(S) == CHOOSE i \in S : \A j \in S : j <= i

\* The marks that hold a triple of the board.
HoldingMarks(b) == {b[Lowest(Triple(k)) + 1] : k \in {j \in 1..8 : Held(b, j)}}

\* The values of the boards that follow b when mover takes an empty cell.
ChildValues(b, mover, is_maximizing, ai_player) ==
    {minimax_in_place(place(b, i, mover), ~is_maximizing, ai_player).value :
        i \in Empties(b)}

MinimaxReturned == pc = "searched" /\ op = "minimax"

\* C26: on a 9-cell board _minimax returns +1 when (only) ai_player holds a
\* triple, -1 when (only) the opponent does, full board or not; 0 on a full
\* board without a held triple; otherwise the highest of the child values
\* when ai_player is to move and the lowest when the opponent is; and the
\* result is always one of -1, 0, 1.
C26_MinimaxValue ==
    (MinimaxReturned /\ IsFull9(board)) =>
        LET holding == HoldingMarks(board)
            mover == IF args.is_maximizing THEN player
                     ELSE opponent_of(player)
            children == ChildValues(board, mover, args.is_maximizing, player)
        IN  /\ holding = {player} => result = 1
            /\ holding = {opponent_of(player)} => result = -1
            /\ (holding = {} /\ Empties(board) = {}) => result = 0
            /\ (holding = {} /\ Empties(board) # {}) =>
                   result = IF args.is_maximizing THEN Highest(children)
                            ELSE Lowest(children)
            /\ result \in {-1, 0, 1}

\* A full board on which the player holds a triple is valued +1, not 0;
\* the opponent was to move.
C26_Witness ==
    /\ MinimaxReturned /\ IsFull9(board)
    /\ Empties(board) = {}
    /\ HoldingMarks(board) = {player}
    /\ ~args.is_maximizing
    /\ result = 1

----------------------------------------------------------------------------
(* Properties of a game with one engine *)

\* C27: in a game from the empty board in which one mark is always played
\* by best_move and the other by any legal move, the other mark never has a
\* three-in-a-row: the best_move side never loses, moving first (X) or
\* second (O).
C27_EngineNeverLoses ==
    \A m \in Marks :
        engines = {m} =>
            /\ check_winner(board) # opponent_of(m)
            /\ pc = "over" => winner_found \in {m, None}

\* The engine moved second and won against a free first player.
C27_Witness ==
    /\ engines = {O}
    /\ pc = "over"
    /\ winner_found = O
    /\ Count(board, X) = Count(board, O)

----------------------------------------------------------------------------
(* Properties of the session store *)

\* C28: the session store is changed only by a dispatched initialize:
\* every other method, every notification, every unknown method and every
\* rejected request leave it as it is, and a step never removes or alters
\* an entry, so the set of session identifiers only grows.
C28_StoreChangedOnlyByInitialize ==
    [][/\ (sessions' # sessions) =>
              (Dispatched(request') /\ MethodOf(request') = "initialize")
       /\ DOMAIN sessions \subseteq DOMAIN sessions'
       /\ \A sid \in DOMAIN sessions : sessions'[sid] = sessions[sid]]_vars

\* notifications/initialized has been served under the identifier of a
\* stored session, and the session is as initialize created it.
C28_Witness ==
    /\ Dispatched(request)
    /\ MethodOf(request) = "notifications/initialized"
    /\ request.headers.session_id \in DOMAIN sessions
    /\ sessions[request.headers.session_id].protocol_version
           \in SUPPORTED_PROTOCOL_VERSIONS

----------------------------------------------------------------------------
(* Properties of best_move on boards that are not over for the caller *)

\* C29: on a 9-cell board, whenever game_over is false and a cell is empty,
\* best_move returns a position in 1..9 whose cell is empty, also when the
\* board holds a three-in-a-row; it returns -1 only if game_over is true or
\* no cell is empty.
C29_MoveWheneverPossible ==
    (BestMoveReturned /\ IsFull9(board)) =>
        /\ (~args.game_over /\ Empties(board) # {}) =>
               /\ result \in 1..BoardSize
               /\ board[result] = None
        /\ result = NoMove => (args.game_over \/ Empties(board) = {})

\* The first row is held by X, the winner argument says so, game_over is
\* false and best_move has returned an empty cell.
C29_Witness ==
    /\ BestMoveReturned /\ IsFull9(board)
    /\ ~args.game_over /\ args.winner = X
    /\ Held(board, 1) /\ board[1] = X
    /\ result \in 1..BoardSize
    /\ board[result] = None

----------------------------------------------------------------------------
(* Properties of the two tool-execution paths *)

\* The engine's answer to the call is -1: best_move or random_move with
\* game_over true or without an empty cell.
YieldsNoMove(name, a) ==
    /\ name \in {"best_move", "random_move"}
    /\ ~Missing(a, {"board", "player"})
    /\ \/ Get(a, "game_over", FALSE)
       \/ \A j \in 1..Len(a.board) : a.board[j] # None

\* C30: execute_tool and _execute_tool_enhanced return the same isError
\* flag and text for the same name and arguments (for random_move: the
\* same possible results), except exactly when best_move or random_move
\* yields -1: there execute_tool returns isError false with a text that
\* ends in "position -1" and _execute_tool_enhanced returns isError true.
C30_PathsAgreeExceptNoMove ==
    /\ pc = "called" =>
           IF YieldsNoMove(tool_call.name, tool_call.arguments)
           THEN /\ ~tool_result.isError
                /\ tool_result.text.position = NoMove
                /\ \A r \in execute_tool_enhanced(tool_call.name,
                                                  tool_call.arguments) :
                       r.isError
           ELSE tool_result \in execute_tool_enhanced(tool_call.name,
                                                      tool_call.arguments)
    /\ pc = "called enhanced" =>
           IF YieldsNoMove(tool_call.name, tool_call.arguments)
           THEN /\ tool_result.isError
                /\ \A r \in execute_tool(tool_call.name,
                                         tool_call.arguments) :
                       ~r.isError /\ r.text.position = NoMove
           ELSE tool_result \in execute_tool(tool_call.name,
                                             tool_call.arguments)

\* best_move on a full board through the message-stream path: an error
\* result where execute_tool reports position -1.
C30_Witness ==
    /\ pc = "called enhanced"
    /\ tool_call.name = "best_move"
    /\ YieldsNoMove(tool_call.name, tool_call.arguments)
    /\ EmptyCount(tool_call.arguments.board) = 0
    /\ tool_result.isError
    /\ tool_result.text.msg = "Could not determine best move for"

----------------------------------------------------------------------------
(* Properties of the initialize response and the catalog responses *)

\* C31: the protocol version recorded in the session that an initialize
\* request creates equals the protocolVersion of the response to that
\* request.
C31_SessionVersionIsAnswered ==
    (IsInitialize(request) /\ Len(written) = 1
        /\ written[1].body.kind = "result") =>
        sessions[written[1].session].protocol_version
            = written[1].body.result.protocolVersion

\* The response that resources/list is answered with.
ListedMimeType(uri) ==
    LET o == CHOOSE o \in handle_list_resources(
                     Handler(request, sessions, issued), None) : TRUE
    IN  o.written[1].body.result.mimeType[uri]

\* C32: for every catalog URI the mimeType of the resources/read response
\* equals the mimeType that resources/list reports for that URI.
C32_ReadMimeTypeAsListed ==
    (Names(request, "resources/read", "uri")
        /\ ParamsIn(request).uri \in ResourceUris) =>
        /\ Len(written) = 1
        /\ written[1].body.kind = "result"
        /\ written[1].body.result.mimeType
               = ListedMimeType(ParamsIn(request).uri)

\* C33: in every successful prompts/get response each message has a
\* content {type: "text", text: s} where s is the string the catalog
\* rendered for the prompt, not a nested content object.
C33_PromptTextIsString ==
    (Names(request, "prompts/get", "name") /\ Len(written) = 1
        /\ written[1].body.kind = "result") =>
        LET messages == written[1].body.result.messages
        IN  \A k \in 1..Len(messages) :
                /\ messages[k].content.type = "text"
                /\ messages[k].content.text
                       = Str("rendered " \o ParamsIn(request).name)

----------------------------------------------------------------------------
(* agent.py: the depth of the recursion of _minimax *)

\* Nested calls are followed down to this level; a call below it is cut
\* off and counted as one level more.
MaxDepth == 10

\* The number of nested _minimax calls below a call on board b that is
\* itself `level` calls below the caller: 0 when b is terminal, else one
\* more than the deepest of the calls its loop makes.
RECURSIVE minimax_depth(_, _, _, _)
minimax_depth(b, is_maximizing, ai_player, level) ==
    IF level > MaxDepth THEN 1
    ELSE IF check_winner(b) # None THEN 0
    ELSE IF \A j \in 1..Len(b) : b[j] # None THEN 0
    ELSE LET mover == IF is_maximizing THEN ai_player
                      ELSE opponent_of(ai_player)
             below == {minimax_depth(place(b, i, mover), ~is_maximizing,
                                     ai_player, level + 1) :
                          i \in {k \in 0..(BoardSize - 1) : b[k + 1] = None}}
         IN  1 + Highest(below)

\* The number of nested calls below best_move: its own _minimax call on
\* the copy with the move placed, and the calls below that.
best_move_depth(b, p, game_over) ==
    IF game_over THEN 0
    ELSE LET moves == valid_moves(b)
         IN  IF Len(moves) = 0 THEN 0
             ELSE 1 + Highest({minimax_depth(place(b, moves[k], p), FALSE,
                                             p, 1) : k \in 1..Len(moves)})

DepthInit ==
    /\ pc = "depth"
    /\ board \in {b \in FullBoards : EmptyCount(b) <= MaxEmpty}
    /\ player \in Marks
    /\ op = "none"
    /\ args = NoArgs
    /\ result = NoMove
    /\ winner_found = None
    /\ engines = {}
    /\ HttpIdle
    /\ ToolIdle
    /\ ThreadIdle
    /\ FastApiIdle

\* _minimax is called and has returned: result is the depth it reached.
DepthMinimax ==
    /\ pc = "depth"
    /\ \E is_maximizing \in BOOLEAN :
          /\ args' = [NoArgs EXCEPT !.is_maximizing = is_maximizing]
          /\ result' = minimax_depth(board, is_maximizing, player, 0)
    /\ op' = "minimax"
    /\ pc' = "returned"
    /\ UNCHANGED <<board, player, winner_found, engines, http_vars, tool_vars,
                   thread_vars,
                   fastapi_vars>>

\* best_move is called and has returned: result is the depth it reached.
DepthBestMove ==
    /\ pc = "depth"
    /\ \E game_over \in BOOLEAN :
          /\ args' = [NoArgs EXCEPT !.game_over = game_over]
          /\ result' = best_move_depth(board, player, game_over)
    /\ op' = "best_move"
    /\ pc' = "returned"
    /\ UNCHANGED <<board, player, winner_found, engines, http_vars, tool_vars,
                   thread_vars,
                   fastapi_vars>>

DepthNext == DepthMinimax \/ DepthBestMove

SpecDepth == DepthInit /\ [][DepthNext]_vars

\* C34: on a 9-cell board best_move and _minimax return, and the recursion
\* below the call never goes deeper than the number of empty cells of the
\* board (each nested call has one more cell filled); a board that is
\* terminal on entry is not searched at all.
C34_DepthAtMostEmptyCells ==
    pc = "returned" =>
        /\ result \in 0..EmptyCount(board)
        /\ (op = "minimax" /\ GameOver(board)) => result = 0

\* best_move on a board with three empty cells went three calls deep: the
\* deepest branch filled the board.
C34_Witness ==
    /\ pc = "returned" /\ op = "best_move"
    /\ EmptyCount(board) = 3
    /\ result = 3

----------------------------------------------------------------------------
(* http_server.py: MCPClient.call_mcp_tool_stream, an async generator that *)
(* its consumer (an "async for" of an endpoint) reads to the end           *)

Event(type, status, content, isError) ==
    [type |-> type, status |-> status, content |-> content,
     isError |-> isError]

NoContent == TextContent("", "", 0)

\* The calls drawn: each tool name with each argument mapping for a few
\* boards.
StreamCalls ==
    {[name |-> name, arguments |-> a] :
        name \in {"new_game", "best_move", "random_move", "play_move",
                  "no_tool"},
        a \in UNION {ArgumentsFor(b, p) :
                        b \in {ForkBoard, TieBoard, <<X, None>>},
                        p \in Marks}}

StreamInit ==
    /\ pc = "stream"
    /\ board = EmptyBoard
    /\ player = X
    /\ op = "none"
    /\ args = NoArgs
    /\ result = NoMove
    /\ winner_found = None
    /\ engines = {}
    /\ HttpIdle
    /\ ThreadIdle
    /\ tool_call \in StreamCalls
    /\ tool_result = CallToolResult(NoContent, FALSE)
    /\ generator = "created"
    /\ events = <<>>
    /\ executed = 0
    /\ active_connections = <<>>
    /\ dead = {}
    /\ attempted = <<>>

\* The first __anext__: the generator yields the status event.
YieldStarting ==
    /\ generator = "created"
    /\ events' = Append(events, Event("status", "starting", NoContent, FALSE))
    /\ generator' = "starting"
    /\ UNCHANGED <<agent_vars, http_vars, tool_vars, thread_vars, executed,
                   ws_vars>>

\* The second: execute_tool is awaited and the progress event is yielded;
\* an exception that leaves execute_tool is caught by the except branch,
\* which yields the error event.
ExecuteAndYieldProgress ==
    /\ generator = "starting"
    /\ \E r \in execute_tool(tool_call.name, tool_call.arguments) :
          /\ tool_result' = r
          /\ IF "raised" \in DOMAIN r
             THEN /\ events' = Append(events,
                                      Event("error", "error", NoContent,
                                            FALSE))
                  /\ generator' = "error"
             ELSE /\ events' = Append(events,
                                      Event("progress", "processing",
                                            NoContent, FALSE))
                  /\ generator' = "progress"
    /\ executed' = executed + 1
    /\ UNCHANGED <<agent_vars, http_vars, tool_call, thread_vars, ws_vars>>

\* The third: the content is converted and the result event is yielded.
YieldResult ==
    /\ generator = "progress"
    /\ events' = Append(events, Event("result", "completed",
                                      tool_result.text, tool_result.isError))
    /\ generator' = "result"
    /\ UNCHANGED <<agent_vars, http_vars, tool_vars, thread_vars, executed,
                   ws_vars>>

\* The last: the generator's body ends (StopAsyncIteration).
StopIteration ==
    /\ generator \in {"result", "error"}
    /\ generator' = "exhausted"
    /\ UNCHANGED <<agent_vars, http_vars, tool_vars, thread_vars, events,
                   executed, ws_vars>>

StreamNext ==
    YieldStarting \/ ExecuteAndYieldProgress \/ YieldResult \/ StopIteration

\* The consumer keeps reading: a step that is possible is taken.
SpecStream == StreamInit /\ [][StreamNext]_vars /\ WF_vars(StreamNext)

TerminalEvents == {k \in 1..Len(events) : events[k].type \in {"result", "error"}}

StreamOrdered ==
    /\ events # <<>> =>
           events[1].type = "status" /\ events[1].status = "starting"
    /\ Cardinality(TerminalEvents) <= 1
    /\ \A k \in TerminalEvents : k = Len(events)
    /\ \A k \in 1..Len(events) :
           events[k].type = "result" =>
               k > 1 /\ events[k - 1].type = "progress"
    /\ executed = (IF Len(events) >= 2 THEN 1 ELSE 0)
    /\ \A k \in TerminalEvents :
           (\/ FailsInTool(tool_call.name, tool_call.arguments)
            \/ EngineRaises(tool_call.name, tool_call.arguments))
           => events[k].type = "result" /\ events[k].isError
    /\ generator = "exhausted" => TerminalEvents # {}

\* C35: every run of call_mcp_tool_stream that is read to its end yields
\* "status: starting" first and ends with exactly one terminal event
\* (result or error) as its last event; a result event directly follows a
\* progress event; the tool is executed exactly once, between starting and
\* progress; a failure in the tool layer arrives as a result event with
\* isError true, not as an error event.
C35_StreamProtocol ==
    /\ []StreamOrdered
    /\ <>(generator = "exhausted")

\* The stream of an unknown tool has ended: starting, progress, result
\* with isError true.
C35_Witness ==
    /\ generator = "exhausted"
    /\ tool_call.name = "no_tool"
    /\ Len(events) = 3
    /\ events[3].type = "result" /\ events[3].isError
    /\ executed = 1

----------------------------------------------------------------------------
(* http_server.py: ConnectionManager *)

MaxConnections == 3
Connections == 1..MaxConnections

\* list.remove(x): the list without its first element equal to x.
remove(list, x) ==
    LET at == Lowest({k \in 1..Len(list) : list[k] = x})
    IN  SubSeq(list, 1, at - 1) \o SubSeq(list, at + 1, Len(list))

\* "for connection in self.active_connections" from the iterator's index
\* i on: the list iterator reads list[i] while i < len(list) and then
\* advances, whatever the body did to the list.  Returns the list and the
\* connections send_text was called on.
RECURSIVE broadcast_loop(_, _, _, _)
broadcast_loop(connections, i, failing, sent) ==
    IF i >= Len(connections)
        THEN [active_connections |-> connections, attempted |-> sent]
    ELSE LET connection == connections[i + 1]
         IN  IF connection \in failing
             THEN broadcast_loop(remove(connections, connection), i + 1,
                                 failing, Append(sent, connection))
             ELSE broadcast_loop(connections, i + 1, failing,
                                 Append(sent, connection))

broadcast(connections, failing) ==
    broadcast_loop(connections, 0, failing, <<>>)

BroadcastInit ==
    /\ pc = "connections"
    /\ board = EmptyBoard
    /\ player = X
    /\ op = "none"
    /\ args = NoArgs
    /\ result = NoMove
    /\ winner_found = None
    /\ engines = {}
    /\ HttpIdle
    /\ ToolIdle
    /\ ThreadIdle
    /\ FastApiIdle

\* connect: a new WebSocket is accepted and appended.
Connect ==
    /\ pc = "connections"
    /\ \E websocket \in Connections \ (Range(active_connections) \cup dead) :
          active_connections' = Append(active_connections, websocket)
    /\ UNCHANGED <<agent_vars, http_vars, tool_vars, thread_vars, stream_vars,
                   dead, attempted>>

\* disconnect: the endpoint saw the WebSocket close and removes it.
Disconnect ==
    /\ pc = "connections"
    /\ \E websocket \in Range(active_connections) :
          active_connections' = remove(active_connections, websocket)
    /\ UNCHANGED <<agent_vars, http_vars, tool_vars, thread_vars, stream_vars,
                   dead, attempted>>

\* The peer of a connected WebSocket goes away: send_text on it raises
\* from now on.
PeerLost ==
    /\ pc = "connections"
    /\ \E websocket \in Range(active_connections) \ dead :
          dead' = dead \cup {websocket}
    /\ UNCHANGED <<agent_vars, http_vars, tool_vars, thread_vars, stream_vars,
                   active_connections, attempted>>

\* broadcast(message), from the call to its return.
Broadcast ==
    /\ pc = "connections"
    /\ LET r == broadcast(active_connections, dead)
       IN  /\ active_connections' = r.active_connections
           /\ attempted' = r.attempted
    /\ pc' = "broadcast"
    /\ UNCHANGED <<board, player, op, args, result, winner_found, engines,
                   http_vars, tool_vars, thread_vars, stream_vars, dead>>

BroadcastNext == Connect \/ Disconnect \/ PeerLost \/ Broadcast

SpecBroadcast == BroadcastInit /\ [][BroadcastNext]_vars

Occurrences(list, x) == Cardinality({k \in 1..Len(list) : list[k] = x})

\* C36: when broadcast returns, every connection that was in
\* active_connections at the call has been attempted exactly once, every
\* connection whose send failed has been removed, and every connection
\* left in active_connections was sent the message.
C36_BroadcastReachesAll ==
    [][pc' = "broadcast" =>
          /\ \A c \in Range(active_connections) :
                 Occurrences(attempted', c) = 1
          /\ Range(active_connections') = Range(active_connections) \ dead
          /\ \A c \in Range(active_connections') :
                 c \notin dead /\ Occurrences(attempted', c) = 1]_vars

====
